---- MODULE Spec2Model ----
(***************************************************************************)
(* Event aggregator: the Ticketmaster/Eventbrite provider adapters and the *)
(* ingestion (upsert) service, over the Event table of the Prisma schema.  *)
(*                                                                         *)
(* Text values are sequences of one-character strings so that trimming is  *)
(* computed; an optional value (undefined / null) is the empty set and a   *)
(* present value v is {v}.  Instants are epoch seconds.                    *)
(***************************************************************************)
EXTENDS Integers, Sequences, FiniteSets, TLC

\* Longest event list handed to one upsert call / returned by one fetch.
MaxLen == 2

Users == {"alice", "bob"}
Calls == {"c1", "c2"}

None == {}
Some(v) == {v}
TheValue(opt) == CHOOSE v \in opt : TRUE

----------------------------------------------------------------------------
(* JavaScript runtime pieces the service relies on *)

WhiteSpace == {" ", "\t", "\n"}

RECURSIVE trimStart(_)
trimStart(s) ==
  IF s # <<>> /\ Head(s) \in WhiteSpace THEN trimStart(Tail(s)) ELSE s

RECURSIVE trimEnd(_)
trimEnd(s) ==
  IF s # <<>> /\ s[Len(s)] \in WhiteSpace
    THEN trimEnd(SubSeq(s, 1, Len(s) - 1))
    ELSE s

\* String.prototype.trim
trim(s) == trimEnd(trimStart(s))

InvalidDate == [nan |-> TRUE, time |-> 0]
DateAt(t) == [nan |-> FALSE, time |-> t]

\* new Date(value): the instant of an ISO-8601 string, Invalid Date otherwise.
NewDate(value) ==
  CASE value = "2025-02-01T10:00:00.000Z" -> DateAt(1738404000)
    [] value = "2025-02-02T10:00:00.000Z" -> DateAt(1738490400)
    [] value = "2025-03-01T20:00:00Z" -> DateAt(1740859200)
    [] value = "2025-03-02T20:00:00Z" -> DateAt(1740945600)
    [] OTHER -> InvalidDate

----------------------------------------------------------------------------
(* ingestion.ts: helpers *)

\* parseDate(value?: string): Date | null
parseDate(value) ==
  IF value = None \/ value = Some("")
    THEN None
    ELSE LET date == NewDate(TheValue(value))
         IN IF date.nan THEN None ELSE Some(date)

\* a sanitizer that rejects the empty string only and does not trim
sanitizeOptionalUntrimmed(value) ==
  IF value = None \/ value = Some(<<>>) THEN None ELSE value

\* sanitizeOptional(value?: string): string | null
sanitizeOptional(value) ==
  IF value = None \/ value = Some(<<>>)
    THEN None
    ELSE LET trimmed == trim(TheValue(value))
         IN IF trimmed = <<>> THEN None ELSE Some(trimmed)

UntitledEvent ==
  <<"U", "n", "t", "i", "t", "l", "e", "d", " ", "E", "v", "e", "n", "t">>

----------------------------------------------------------------------------
(* NormalizedEvent values handed to the service *)

Gig == <<"G", "i", "g">>
PaddedJam == <<" ", "J", "a", "m", " ">>
Blank == <<" ", " ">>
Hall == <<"H", "a", "l", "l">>
PaddedPub == <<"\t", "P", "u", "b">>
MainSt == <<"1", " ", "M", "a", "i", "n">>
PaddedElm == <<"2", " ", "E", "l", "m", " ">>
Link == <<"h", "t", "t", "p", "s", ":", "/", "/", "x", ".", "i", "o">>
PaddedLink == <<" ", "h", "t", "t", "p", "s", ":", "/", "/", "y", ".", "i", "o">>
Info == <<"i", "n", "f", "o">>
PaddedNote == <<" ", "n", "o", "t", "e", "\n">>

EvFresh ==
  [uid |-> "e1", source |-> "ticketmaster", title |-> Gig,
   description |-> Some(Info), startUtc |-> "2025-03-01T20:00:00Z",
   endUtc |-> Some("2025-03-02T20:00:00Z"), venueName |-> Some(Hall),
   address |-> Some(MainSt), url |-> Some(Link),
   lastSeenAtUtc |-> "2025-02-02T10:00:00.000Z"]

\* the same uid as EvFresh, seen earlier, from another source, all text blank
EvStale ==
  [uid |-> "e1", source |-> "eventbrite", title |-> Blank,
   description |-> None, startUtc |-> "2025-03-02T20:00:00Z",
   endUtc |-> None, venueName |-> Some(Blank),
   address |-> Some(<<>>), url |-> None,
   lastSeenAtUtc |-> "2025-02-01T10:00:00.000Z"]

EvPadded ==
  [uid |-> "e2", source |-> "ticketmaster", title |-> PaddedJam,
   description |-> Some(PaddedNote), startUtc |-> "2025-03-01T20:00:00Z",
   endUtc |-> None, venueName |-> Some(PaddedPub),
   address |-> Some(PaddedElm), url |-> Some(PaddedLink),
   lastSeenAtUtc |-> "2025-02-01T10:00:00.000Z"]

EvNoUid == [EvFresh EXCEPT !.uid = ""]
EvBadStart == [EvPadded EXCEPT !.startUtc = "not-a-date"]
EvNoSeen == [EvFresh EXCEPT !.lastSeenAtUtc = ""]

EventPool == {EvFresh, EvStale, EvPadded, EvNoUid, EvBadStart, EvNoSeen}

SeqsUpTo(S, n) == UNION {[1..k -> S] : k \in 0..n}
EventLists == SeqsUpTo(EventPool, MaxLen)

----------------------------------------------------------------------------
(* The Event table (migration.sql) behind the Prisma client *)

VARIABLES
  store,     \* rows of the Event table
  calls,     \* per call slot: one invocation of upsertTicketmasterEventsForUser
  inflight,  \* persistence operations issued to the store and not yet settled
  fetch,     \* one invocation of a provider adapter
  handler,   \* one request to the Ticketmaster sync route
  val,       \* one call of a validation function: its input and its result
  auth,      \* the session token and one invocation of the jwt callback
  cal        \* one request to the calendar route

vars == <<store, calls, inflight, fetch, handler, val, auth, cal>>

\* a where clause that forgets the uid half of the compound key
MatchesWhereUserOnly(row, where) == row.userId = where.userId

\* a where clause that forgets the userId half of the compound key
MatchesWhereUidOnly(row, where) == row.uid = where.uid

MatchesWhere(row, where) ==
  row.userId = where.userId /\ row.uid = where.uid

\* a lookup that never finds the row
findUniqueBlind(rows, where) == None

\* prisma.event.findUnique({ where }): the matching rows (null when none)
findUnique(rows, where) == {r \in rows : MatchesWhere(r, where)}

\* the table without its unique index
NoUniqueIndex(rows, userId, uid) == FALSE

\* CREATE UNIQUE INDEX "Event_userId_uid_key" ON "Event"("userId", "uid")
UniqueViolation(rows, userId, uid) ==
  \E r \in rows : r.userId = userId /\ r.uid = uid

\* "id" TEXT NOT NULL PRIMARY KEY: a fresh value for every created row
NewId(rows, userId, uid) ==
  <<userId, uid, Cardinality({r \in rows : r.userId = userId /\ r.uid = uid})>>

\* INSERT of { userId, uid, ...baseData }: an undefined field is left to the
\* column's default (NULL; tag 'Other'), endUtc is never given.
NewRow(rows, userId, uid, data) ==
  [id |-> NewId(rows, userId, uid), userId |-> userId, uid |-> uid,
   source |-> data.source, title |-> data.title,
   description |-> data.description, startUtc |-> data.startUtc,
   endUtc |-> None, venueName |-> data.venueName, address |-> data.address,
   tag |-> "Other", url |-> data.url, lastSeenAtUtc |-> data.lastSeenAtUtc]

\* UPDATE ... SET of baseData: Prisma leaves a field whose value is undefined
\* untouched.
ApplyUpdate(row, data) ==
  [row EXCEPT
     !.source = data.source,
     !.title = data.title,
     !.description = IF data.description = None THEN @ ELSE data.description,
     !.startUtc = data.startUtc,
     !.venueName = IF data.venueName = None THEN @ ELSE data.venueName,
     !.address = IF data.address = None THEN @ ELSE data.address,
     !.url = IF data.url = None THEN @ ELSE data.url,
     !.lastSeenAtUtc = data.lastSeenAtUtc]

\* an update whose where clause names the user only
updateEveryRowOfUser(rows, where, data) ==
  {IF r.userId = where.userId THEN ApplyUpdate(r, data) ELSE r : r \in rows}

\* an update that deletes the row it was to change
updateDropsRow(rows, where, data) == {r \in rows : ~MatchesWhere(r, where)}

\* prisma.event.update({ where, data })
update(rows, where, data) ==
  {IF MatchesWhere(r, where) THEN ApplyUpdate(r, data) ELSE r : r \in rows}

----------------------------------------------------------------------------
(* ingestion.ts: upsertTicketmasterEvent / upsertTicketmasterEventsForUser *)

\* the early returns without the uid check
SkipsWithoutUidCheck(event) ==
  \/ parseDate(Some(event.startUtc)) = None
  \/ parseDate(Some(event.lastSeenAtUtc)) = None

\* the three early returns of upsertTicketmasterEvent
Skips(event) ==
  \/ event.uid = ""
  \/ parseDate(Some(event.startUtc)) = None
  \/ parseDate(Some(event.lastSeenAtUtc)) = None

Where(userId, event) == [userId |-> userId, uid |-> event.uid]

baseData(event) ==
  [source |-> event.source,
   title |-> LET t == sanitizeOptional(Some(event.title))
             IN IF t = None THEN UntitledEvent ELSE TheValue(t),
   description |-> sanitizeOptional(event.description),
   startUtc |-> TheValue(parseDate(Some(event.startUtc))).time,
   venueName |-> sanitizeOptional(event.venueName),
   address |-> sanitizeOptional(event.address),
   url |-> sanitizeOptional(event.url),
   lastSeenAtUtc |-> TheValue(parseDate(Some(event.lastSeenAtUtc))).time]

IdleCall ==
  [pc |-> "idle", userId |-> "", events |-> <<>>, idx |-> 0,
   inserted |-> 0, updated |-> 0, error |-> "none"]

OpsOf(c) == {op \in inflight : op.call = c}
EventOf(op) == calls[op.call].events[op.idx]
WhereOf(op) == Where(calls[op.call].userId, EventOf(op))

\* the loop without its await: every event is started at once
LoopReadyNoAwait(c) == TRUE

\* `await upsertTicketmasterEvent(...)`: the loop goes on once the previous
\* event's persistence operations have settled
LoopReady(c) == OpsOf(c) = {}

Begin(c, userId, events) ==
  /\ calls' = [calls EXCEPT ![c] =
       [IdleCall EXCEPT !.pc = "running", !.userId = userId,
                        !.events = events]]
  /\ UNCHANGED <<store, inflight, fetch, handler, val, auth, cal>>

\* loop head on an event that takes an early return: "skipped"
SkipEvent(c) ==
  /\ calls[c].pc = "running"
  /\ calls[c].idx < Len(calls[c].events)
  /\ LoopReady(c)
  /\ Skips(calls[c].events[calls[c].idx + 1])
  /\ calls' = [calls EXCEPT ![c].idx = @ + 1]
  /\ UNCHANGED <<store, inflight, fetch, handler, val, auth, cal>>

\* loop head on a valid event: runs up to `await prisma.event.findUnique`
IssueFind(c) ==
  /\ calls[c].pc = "running"
  /\ calls[c].idx < Len(calls[c].events)
  /\ LoopReady(c)
  /\ ~Skips(calls[c].events[calls[c].idx + 1])
  /\ calls' = [calls EXCEPT ![c].idx = @ + 1]
  /\ inflight' = inflight \cup
       {[call |-> c, idx |-> calls[c].idx + 1, kind |-> "findUnique"]}
  /\ UNCHANGED <<store, fetch, handler, val, auth, cal>>

\* the store answers the lookup; the call issues update or create
DbFindUnique(op) ==
  /\ op \in inflight
  /\ op.kind = "findUnique"
  /\ LET existing == findUnique(store, WhereOf(op))
     IN inflight' = (inflight \ {op}) \cup
          {[op EXCEPT !.kind = IF existing # None THEN "update" ELSE "create"]}
  /\ UNCHANGED <<store, calls, fetch, handler, val, auth, cal>>

\* the store runs the update (P2025 when the row is gone); "updated"
DbUpdate(op) ==
  /\ op \in inflight
  /\ op.kind = "update"
  /\ inflight' = inflight \ {op}
  /\ UNCHANGED <<fetch, handler, val, auth, cal>>
  /\ IF findUnique(store, WhereOf(op)) = None
       THEN /\ calls' = [calls EXCEPT ![op.call].pc = "raised",
                                      ![op.call].error = "P2025"]
            /\ UNCHANGED store
       ELSE /\ store' = update(store, WhereOf(op), baseData(EventOf(op)))
            /\ calls' = [calls EXCEPT ![op.call].updated = @ + 1]

\* the store runs the insert (P2002 on the unique index); "inserted"
DbCreate(op) ==
  /\ op \in inflight
  /\ op.kind = "create"
  /\ inflight' = inflight \ {op}
  /\ UNCHANGED <<fetch, handler, val, auth, cal>>
  /\ IF UniqueViolation(store, calls[op.call].userId, EventOf(op).uid)
       THEN /\ calls' = [calls EXCEPT ![op.call].pc = "raised",
                                      ![op.call].error = "P2002"]
            /\ UNCHANGED store
       ELSE /\ store' = store \cup
                 {NewRow(store, calls[op.call].userId, EventOf(op).uid,
                         baseData(EventOf(op)))}
            /\ calls' = [calls EXCEPT ![op.call].inserted = @ + 1]

\* the store (or the connection to it) fails: the awaited promise rejects,
\* nothing catches it, the call rejects
DbFails(op) ==
  /\ op \in inflight
  /\ calls[op.call].pc = "running"
  /\ inflight' = inflight \ {op}
  /\ calls' = [calls EXCEPT ![op.call].pc = "raised",
                            ![op.call].error = "store"]
  /\ UNCHANGED <<store, fetch, handler, val, auth, cal>>

\* end of the loop: return { inserted, updated }
Return(c) ==
  /\ calls[c].pc = "running"
  /\ calls[c].idx = Len(calls[c].events)
  /\ LoopReady(c)
  /\ calls' = [calls EXCEPT ![c].pc = "returned"]
  /\ UNCHANGED <<store, inflight, fetch, handler, val, auth, cal>>

----------------------------------------------------------------------------
(* fetchers/ticketmaster.ts, fetchers/eventbrite.ts: the provider adapters *)

Providers == {"ticketmaster", "eventbrite"}

RECURSIVE Join(_)
\* Array.prototype.join(", ")
Join(parts) ==
  IF parts = <<>> THEN <<>>
  ELSE IF Len(parts) = 1 THEN parts[1]
  ELSE parts[1] \o <<",", " ">> \o Join(Tail(parts))

\* .filter((part) => part && part.trim() !== "")
NonBlankParts(parts) ==
  SelectSeq(parts, LAMBDA part : part # <<>> /\ trim(part) # <<>>)

\* a ?? b on optional values
Coalesce(a, b) == IF a # None THEN a ELSE b
OrEmpty(a, empty) == IF a # None THEN TheValue(a) ELSE empty

\* new Date().toISOString() at the time of a fetch
Clock == {"2025-02-01T10:00:00.000Z", "2025-02-02T10:00:00.000Z"}

\* one element of the provider's event array, as either adapter reads it
RawFull ==
  [id |-> Some("e1"), name |-> Some(Gig), description |-> Some(Info),
   info |-> Some(PaddedNote), url |-> Some(Link),
   start |-> Some("2025-03-01T20:00:00Z"),
   end |-> Some("2025-03-02T20:00:00Z"), venueName |-> Some(Hall),
   addressParts |-> <<MainSt, <<>>, Hall, Blank, <<"7">>, <<>>>>,
   display |-> Some(MainSt)]

RawBare ==
  [id |-> None, name |-> None, description |-> None, info |-> Some(Info),
   url |-> None, start |-> None, end |-> None, venueName |-> None,
   addressParts |-> <<<<>>, <<>>, <<>>, <<>>, <<>>, <<>>>>,
   display |-> None]

RawOther == [RawFull EXCEPT !.id = Some("e2"), !.description = None,
                            !.start = Some("not-a-date")]

\* an array element may also be null, on which the mapping throws
RawElements == {Some(RawFull), Some(RawBare), Some(RawOther), None}

\* the parsed body: not JSON, no events array, or an events array
Bodies ==
  {[json |-> FALSE, events |-> None]} \cup
  {[json |-> TRUE, events |-> None]} \cup
  {[json |-> TRUE, events |-> Some(es)] : es \in SeqsUpTo(RawElements, MaxLen)}

\* ticketmaster.ts: events.map((event) => ...)
MapTicketmaster(event, seenAt) ==
  [uid |-> OrEmpty(event.id, ""),
   source |-> "ticketmaster",
   title |-> OrEmpty(event.name, <<>>),
   description |-> Coalesce(event.description, event.info),
   startUtc |-> OrEmpty(event.start, ""),
   endUtc |-> event.end,
   venueName |-> event.venueName,
   address |-> LET addressParts == NonBlankParts(event.addressParts)
               IN IF Len(addressParts) > 0 THEN Some(Join(addressParts))
                                           ELSE None,
   url |-> event.url,
   lastSeenAtUtc |-> seenAt]

\* eventbrite.ts: (data.events ?? []).map((event) => ...)
MapEventbrite(event, seenAt) ==
  [uid |-> OrEmpty(event.id, ""),
   source |-> "eventbrite",
   title |-> OrEmpty(event.name, <<>>),
   description |-> Some(OrEmpty(event.description, <<>>)),
   startUtc |-> OrEmpty(event.start, ""),
   endUtc |-> Some(OrEmpty(event.end, "")),
   venueName |-> Some(OrEmpty(event.venueName, <<>>)),
   address |-> Some(OrEmpty(event.display, <<>>)),
   url |-> Some(OrEmpty(event.url, <<>>)),
   lastSeenAtUtc |-> seenAt]

MapEvent(provider, event, seenAt) ==
  IF provider = "ticketmaster" THEN MapTicketmaster(event, seenAt)
                               ELSE MapEventbrite(event, seenAt)

IdleFetch ==
  [pc |-> "idle", provider |-> "none", failure |-> "none", status |-> 0,
   body |-> [json |-> FALSE, events |-> None], result |-> <<>>]

\* `if (!apiKey) { console.error(...); return []; }`
MissingKey(f) ==
  [f EXCEPT !.pc = "returned", !.failure = "missing key", !.result = <<>>]

\* a non-2xx answer turned into an exception
NotOkThrows(f) == [f EXCEPT !.pc = "raised", !.failure = "non-2xx"]

\* `if (!response.ok) { console.error(...); return []; }`
NotOk(f) ==
  [f EXCEPT !.pc = "returned", !.failure = "non-2xx", !.result = <<>>]

\* a catch block that logs and rethrows
CaughtRethrown(f, why) == [f EXCEPT !.pc = "raised", !.failure = why]

\* `catch (error) { console.error(...); return []; }`
Caught(f, why) ==
  [f EXCEPT !.pc = "returned", !.failure = why, !.result = <<>>]

\* the adapter is called; without an API key it returns at once, otherwise
\* it builds the URL and awaits fetch(url)
FetchStart ==
  /\ fetch.pc = "idle"
  /\ \E provider \in Providers, apiKey \in {"", "key"} :
       fetch' = IF apiKey = ""
                  THEN MissingKey([fetch EXCEPT !.provider = provider])
                  ELSE [fetch EXCEPT !.pc = "requesting",
                                     !.provider = provider]
  /\ UNCHANGED <<store, calls, inflight, handler, val, auth, cal>>

\* fetch() rejects (network failure)
FetchRejects ==
  /\ fetch.pc = "requesting"
  /\ fetch' = Caught(fetch, "request threw")
  /\ UNCHANGED <<store, calls, inflight, handler, val, auth, cal>>

\* the provider answers; on a 2xx status the adapter awaits response.json()
FetchResponds ==
  /\ fetch.pc = "requesting"
  /\ \E status \in {200, 401, 429, 500}, body \in Bodies :
       fetch' = IF status \in 200..299
                  THEN [fetch EXCEPT !.pc = "parsing", !.status = status,
                                     !.body = body]
                  ELSE NotOk([fetch EXCEPT !.status = status])
  /\ UNCHANGED <<store, calls, inflight, handler, val, auth, cal>>

\* response.json() settles and the events are mapped
FetchParsed ==
  /\ fetch.pc = "parsing"
  /\ \E seenAt \in Clock : fetch' =
       IF ~fetch.body.json
         THEN Caught(fetch, "parse threw")
         ELSE LET events == OrEmpty(fetch.body.events, <<>>)
              IN IF \E i \in 1..Len(events) : events[i] = None
                   THEN Caught(fetch, "mapping threw")
                   ELSE [fetch EXCEPT
                           !.pc = "returned",
                           !.result =
                             [i \in 1..Len(events) |->
                                MapEvent(fetch.provider,
                                         TheValue(events[i]), seenAt)]]
  /\ UNCHANGED <<store, calls, inflight, handler, val, auth, cal>>

NextFetch ==
  \/ FetchStart
  \/ FetchRejects
  \/ FetchResponds
  \/ FetchParsed

----------------------------------------------------------------------------
(* pages/api sync route (handler): fetch from Ticketmaster, then upsert *)

Methods == {"GET", "POST", "PUT", "DELETE"}

\* req.query.userId: absent, given several times (an array), or a string
QueryValues ==
  {[type |-> "undefined", value |-> ""], [type |-> "object", value |-> "alice"],
   [type |-> "string", value |-> ""], [type |-> "string", value |-> "alice"],
   [type |-> "string", value |-> "bob"]}

\* a userId taken whatever its type
UserIdOfAnyType(query) ==
  IF query.type = "undefined" THEN None ELSE Some(query.value)

\* typeof req.query.userId === "string" ? req.query.userId : undefined
UserIdOf(query) ==
  IF query.type = "string" THEN Some(query.value) ELSE None

\* !userId
MissingUserId(userId) == userId = None \/ userId = Some("")

NoResponse == [status |-> 0, error |-> "", inserted |-> 0, updated |-> 0]

\* res.status(code).json({ error })
ErrorResponse(code, error) ==
  [status |-> code, error |-> error, inserted |-> 0, updated |-> 0]

\* res.status(200).json({ inserted, updated })
SummaryResponse(inserted, updated) ==
  [status |-> 200, error |-> "", inserted |-> inserted, updated |-> updated]

IdleHandler ==
  [pc |-> "idle", method |-> "", query |-> [type |-> "undefined", value |-> ""],
   before |-> {}, response |-> NoResponse]

Respond(h, response) == [h EXCEPT !.pc = "responded", !.response = response]

\* a request arrives: method check, userId check, then the adapter is called
\* (the API key check of fetchTicketmasterEvents runs before its first await)
HandlerReceive ==
  /\ handler.pc = "idle"
  /\ \E method \in Methods, query \in QueryValues, apiKey \in {"", "key"} :
       LET h == [handler EXCEPT !.method = method, !.query = query,
                                !.before = store]
       IN IF method # "GET" /\ method # "POST"
            THEN /\ handler' = Respond(h, ErrorResponse(405, "Method not allowed"))
                 /\ UNCHANGED fetch
            ELSE IF MissingUserId(UserIdOf(query))
              THEN /\ handler' = Respond(h, ErrorResponse(400, "Missing userId"))
                   /\ UNCHANGED fetch
              ELSE /\ handler' = [h EXCEPT !.pc = "fetching"]
                   /\ fetch' =
                        IF apiKey = ""
                          THEN MissingKey([fetch EXCEPT
                                             !.provider = "ticketmaster"])
                          ELSE [fetch EXCEPT !.pc = "requesting",
                                             !.provider = "ticketmaster"]
  /\ UNCHANGED <<store, calls, inflight, val, auth, cal>>

\* `await fetchTicketmasterEvents(...)` settles: the upsert is called with its
\* events, or the catch block answers 500
HandlerFetched ==
  /\ handler.pc = "fetching"
  /\ fetch.pc \in {"returned", "raised"}
  /\ IF fetch.pc = "raised"
       THEN /\ handler' = Respond(handler,
                 ErrorResponse(500, "Failed to sync Ticketmaster events"))
            /\ UNCHANGED calls
       ELSE /\ handler' = [handler EXCEPT !.pc = "upserting"]
            /\ calls' = [calls EXCEPT !["c1"] =
                 [IdleCall EXCEPT !.pc = "running",
                                  !.userId = TheValue(UserIdOf(handler.query)),
                                  !.events = fetch.result]]
  /\ UNCHANGED <<store, inflight, fetch, val, auth, cal>>

\* `await upsertTicketmasterEventsForUser(...)` settles: 200 with the
\* summary, or the catch block answers 500
HandlerUpserted ==
  /\ handler.pc = "upserting"
  /\ calls["c1"].pc \in {"returned", "raised"}
  /\ handler' =
       IF calls["c1"].pc = "raised"
         THEN Respond(handler,
                ErrorResponse(500, "Failed to sync Ticketmaster events"))
         ELSE Respond(handler,
                SummaryResponse(calls["c1"].inserted, calls["c1"].updated))
  /\ UNCHANGED <<store, calls, inflight, fetch, val, auth, cal>>

\* the response is sent; the next request can be served
HandlerDone ==
  /\ handler.pc = "responded"
  /\ handler' = IdleHandler
  /\ fetch' = IdleFetch
  /\ calls' = [calls EXCEPT !["c1"] = IdleCall]
  /\ UNCHANGED <<store, inflight, val, auth, cal>>

----------------------------------------------------------------------------
(* lib/validation/event-validation.ts: instants, calendar and date strings *)

\* instants are whole seconds since 1970-01-01T00:00:00Z
Minute == 60
Hour == 60 * Minute
Day == 24 * Hour

\* the day number of a civil date; a day past the end of its month runs
\* into the next month, as in `new Date(year, month, day)`
DaysFromCivil(year, month, day) ==
  LET y == IF month <= 2 THEN year - 1 ELSE year
      era == y \div 400
      yoe == y - era * 400
      mp == IF month > 2 THEN month - 3 ELSE month + 9
      doy == (153 * mp + 2) \div 5 + day - 1
      doe == yoe * 365 + yoe \div 4 - yoe \div 100 + doy
  IN era * 146097 + doe - 719468

\* getFullYear(), getMonth() + 1 and getDate() of a day number
CivilFromDays(days) ==
  LET z == days + 719468
      era == z \div 146097
      doe == z - era * 146097
      yoe == (doe - doe \div 1460 + doe \div 36524 - doe \div 146096) \div 365
      doy == doe - (365 * yoe + yoe \div 4 - yoe \div 100)
      mp == (5 * doy + 2) \div 153
      d == doy - (153 * mp + 2) \div 5 + 1
      m == IF mp < 10 THEN mp + 3 ELSE mp - 9
  IN [year |-> yoe + era * 400 + (IF m <= 2 THEN 1 ELSE 0),
      month |-> m, day |-> d]

InstantAt(year, month, day, seconds) ==
  DaysFromCivil(year, month, day) * Day + seconds

\* `new Date()`: the instants at which the validators are called, and the
\* offsets of the process's local time from UTC (seconds east)
Nows == {InstantAt(2026, 11, 2, 12 * Hour), InstantAt(2028, 2, 29, 8 * Hour)}
LocalOffsets == {0, 0 - 5 * Hour, 9 * Hour}
Environments == [now : Nows, offset : LocalOffsets]

\* `new Date(now.getFullYear() + years, now.getMonth(), now.getDate())`:
\* local midnight of today's date in another year
MidnightYearsFrom(env, years) ==
  LET today == CivilFromDays((env.now + env.offset) \div Day)
  IN DaysFromCivil(today.year + years, today.month, today.day) * Day
       - env.offset

\* a date string: "iso" is the form z.string().datetime() accepts
\* (2026-11-02T12:00:00Z), "other" another form Date parses (Mon, 02 Nov
\* 2026 12:00:00 GMT), "garbage" a text Date cannot parse, "empty" is ''
IsoString(t) == [form |-> "iso", at |-> t]
OtherDateString(t) == [form |-> "other", at |-> t]
GarbageString == [form |-> "garbage", at |-> 0]
EmptyString == [form |-> "empty", at |-> 0]

\* new Date(dateString)
NewDateOf(dateString) ==
  IF dateString.form \in {"iso", "other"}
    THEN DateAt(dateString.at)
    ELSE InvalidDate

Invalid(error) == [isValid |-> FALSE, error |-> Some(error)]

\* a list of one entry when the condition holds, else the empty list
When(condition, entry) == IF condition THEN <<entry>> ELSE <<>>

validateDateString(dateString, env) ==
  IF dateString.form = "empty"
    THEN Invalid("Date string is required") @@ [date |-> None]
    ELSE LET date == NewDateOf(dateString)
             twoYearsFromNow == MidnightYearsFrom(env, 2)
             twoYearsAgo == MidnightYearsFrom(env, 0 - 2)
         IN IF date.nan
              THEN Invalid("Invalid date format") @@ [date |-> None]
              ELSE IF date.time < twoYearsAgo
                THEN Invalid("Date is too far in the past") @@ [date |-> None]
                ELSE IF date.time > twoYearsFromNow
                  THEN Invalid("Date is too far in the future")
                         @@ [date |-> None]
                  ELSE [isValid |-> TRUE, error |-> None,
                        date |-> Some(date)]

\* time zone names
TzUTC == <<"U", "T", "C">>
TzEST == <<"E", "S", "T">>
TzPaddedZ == <<" ", "Z", " ">>
TzNewYork == <<"A", "m", "e", "r", "i", "c", "a", "/",
               "N", "e", "w", "_", "Y", "o", "r", "k">>
TzMoon == <<"M", "o", "o", "n">>
NoText == <<>>

\* timezoneMap[timezone] || timezone
normalizeTimezone(timezone) ==
  CASE timezone = TzEST -> TzNewYork
    [] timezone = <<"Z">> -> TzUTC
    [] OTHER -> timezone

\* the names Intl.DateTimeFormat accepts as timeZone
IntlTimeZones == {TzUTC, TzNewYork, TzEST}

validateTimezone(timezone) ==
  IF timezone = NoText
    THEN Invalid("Timezone is required") @@ [normalizedTimezone |-> None]
    ELSE IF trim(timezone) = NoText
      THEN Invalid("Timezone cannot be empty")
             @@ [normalizedTimezone |-> None]
      ELSE IF normalizeTimezone(trim(timezone)) \in IntlTimeZones
        THEN [isValid |-> TRUE, error |-> None,
              normalizedTimezone |-> Some(normalizeTimezone(trim(timezone)))]
        ELSE Invalid("Invalid timezone identifier")
               @@ [normalizedTimezone |-> None]

\* lines 258-266 and the returns below them, given the outcome of
\* validateDateString
WithTimezone(dateValidation, timezoneValidation, timezone) ==
  IF ~dateValidation.isValid
    THEN [isValid |-> FALSE, error |-> dateValidation.error]
    ELSE IF timezone # None /\ TheValue(timezone) # NoText
              /\ ~timezoneValidation.isValid
      THEN [isValid |-> FALSE, error |-> timezoneValidation.error]
      ELSE [isValid |-> TRUE, error |-> None]

\* validateDateTimeWithTimezone, as far as its callers read it (isValid,
\* error); timezone is None when the argument is undefined
validateDateTimeWithTimezone(dateTimeString, timezone, env) ==
  WithTimezone(validateDateString(dateTimeString, env),
               validateTimezone(OrEmpty(timezone, NoText)), timezone)

\* the duration in minutes, rounded up
DurationMinutesCeil(startDate, endDate) ==
  (endDate.time - startDate.time + Minute - 1) \div Minute

\* Math.floor(durationMs / (1000 * 60))
DurationMinutes(startDate, endDate) ==
  (endDate.time - startDate.time) \div Minute

NoMinutes == [durationMinutes |-> None]

\* lines 370-394: the verdict on two parsed dates
DurationVerdict(startDate, endDate, durationMinutes) ==
  IF endDate.time <= startDate.time
    THEN Invalid("End date must be after start date") @@ NoMinutes
    ELSE IF durationMinutes > 7 * 24 * 60
      THEN Invalid("Event duration too long") @@ NoMinutes
      ELSE IF durationMinutes < 1
        THEN Invalid("Event duration too short: must be at least 1 minute")
               @@ NoMinutes
        ELSE [isValid |-> TRUE, error |-> None,
              durationMinutes |-> Some(durationMinutes)]

\* lines 354-368, given the outcomes of validateDateString
DurationOf(startValidation, endUtc, endValidation) ==
  IF ~startValidation.isValid
    THEN Invalid("Invalid start date") @@ NoMinutes
    ELSE IF endUtc = None \/ TheValue(endUtc).form = "empty"
      THEN [isValid |-> TRUE, error |-> None] @@ NoMinutes
      ELSE IF ~endValidation.isValid
        THEN Invalid("Invalid end date") @@ NoMinutes
        ELSE DurationVerdict(TheValue(startValidation.date),
                             TheValue(endValidation.date),
                             DurationMinutes(TheValue(startValidation.date),
                                             TheValue(endValidation.date)))

\* validateEventDuration(startUtc, endUtc); endUtc is None when undefined
validateEventDuration(startUtc, endUtc, env) ==
  DurationOf(validateDateString(startUtc, env), endUtc,
             validateDateString(OrEmpty(endUtc, EmptyString), env))

----------------------------------------------------------------------------
(* lib/validation/event-validation.ts: coordinates (whole degrees) *)

Abs(n) == IF n < 0 THEN 0 - n ELSE n

\* a whole number has no decimal places and is its own rounding
getDecimalPlaces(num) == 0
roundToPrecision(num, precision) == num

oceanCoordinates ==
  {[lat |-> 0, lng |-> 0], [lat |-> 0, lng |-> 180], [lat |-> 0, lng |-> -180],
   [lat |-> 90, lng |-> 0], [lat |-> -90, lng |-> 0]}

isCoordinateInOcean(lat, lng) ==
  \E coord \in oceanCoordinates :
    Abs(coord.lat - lat) < 1 /\ Abs(coord.lng - lng) < 1

isCoordinateInUninhabitedArea(lat, lng) ==
  \/ Abs(lat) > 80
  \/ Abs(lat) < 5 /\ Abs(lng) > 150

checkRealisticCoordinateBounds(lat, lng) ==
  LET warnings ==
        (IF isCoordinateInOcean(lat, lng)
           THEN <<"Coordinates appear to be in the ocean">> ELSE <<>>)
        \o (IF isCoordinateInUninhabitedArea(lat, lng)
              THEN <<"Coordinates appear to be in an uninhabited area">>
              ELSE <<>>)
  IN IF lat = 0 /\ lng = 0
       THEN Invalid("Coordinates (0,0) are in the ocean and likely incorrect")
              @@ [warnings |-> <<>>]
       ELSE [isValid |-> TRUE, error |-> None,
             warnings |-> warnings
               \o (IF Abs(lat) > 85
                     THEN <<"Coordinates are very close to the poles">>
                     ELSE <<>>)]

\* const { allowPartial = false, precision = 6, checkRealisticBounds = true }
DefaultCoordinateOptions ==
  [allowPartial |-> FALSE, precision |-> 6, checkRealisticBounds |-> TRUE]

CoordinateOptions ==
  [allowPartial : BOOLEAN, precision : {6}, checkRealisticBounds : BOOLEAN]

\* validateCoordinates(lat, lng, options) on numbers; lat and lng are None
\* when undefined
validateCoordinates(lat, lng, options) ==
  LET rejected(error) ==
        Invalid(error) @@ [warnings |-> <<>>, normalized |-> None]
      precisionWarnings ==
        (IF lat # None /\ getDecimalPlaces(TheValue(lat)) > options.precision
           THEN <<"Latitude has too many decimal places">> ELSE <<>>)
        \o (IF lng # None
                 /\ getDecimalPlaces(TheValue(lng)) > options.precision
              THEN <<"Longitude has too many decimal places">> ELSE <<>>)
      realisticBounds ==
        checkRealisticCoordinateBounds(TheValue(lat), TheValue(lng))
      normalized ==
        [lat |-> IF lat # None
                   THEN Some(roundToPrecision(TheValue(lat),
                                              options.precision))
                   ELSE None,
         lng |-> IF lng # None
                   THEN Some(roundToPrecision(TheValue(lng),
                                              options.precision))
                   ELSE None]
  IN IF lat = None /\ lng = None
       THEN [isValid |-> TRUE, error |-> None, warnings |-> <<>>,
             normalized |-> None]
     ELSE IF ~options.allowPartial /\ (lat = None \/ lng = None)
       THEN rejected("Both latitude and longitude must be provided")
     ELSE IF lat # None /\ (TheValue(lat) < -90 \/ TheValue(lat) > 90)
       THEN rejected("Latitude must be between -90 and 90 degrees")
     ELSE IF lng # None /\ (TheValue(lng) < -180 \/ TheValue(lng) > 180)
       THEN rejected("Longitude must be between -180 and 180 degrees")
     ELSE IF options.checkRealisticBounds /\ lat # None /\ lng # None
       THEN IF ~realisticBounds.isValid
              THEN rejected(TheValue(realisticBounds.error))
              ELSE [isValid |-> TRUE, error |-> None,
                    warnings |-> precisionWarnings
                                   \o realisticBounds.warnings,
                    normalized |-> Some(normalized)]
     ELSE [isValid |-> TRUE, error |-> None,
           warnings |-> precisionWarnings, normalized |-> Some(normalized)]

----------------------------------------------------------------------------
(* lib/validation/event-validation.ts: URLs (texts are character sequences) *)

UpperCase == <<"A", "B", "C", "D", "E", "F", "G", "H", "I", "J", "K", "L",
    "M",
               "N", "O", "P", "Q", "R", "S", "T", "U", "V", "W", "X", "Y",
                   "Z">>
LowerCase == <<"a", "b", "c", "d", "e", "f", "g", "h", "i", "j", "k", "l",
    "m",
               "n", "o", "p", "q", "r", "s", "t", "u", "v", "w", "x", "y",
                   "z">>
Digits == <<"0", "1", "2", "3", "4", "5", "6", "7", "8", "9">>

IsDigit(c) == \E i \in 1..10 : Digits[i] = c
DigitValue(c) == (CHOOSE i \in 1..10 : Digits[i] = c) - 1

toLowerCase(s) ==
  [i \in 1..Len(s) |->
     IF \E k \in 1..26 : UpperCase[k] = s[i]
       THEN LowerCase[CHOOSE k \in 1..26 : UpperCase[k] = s[i]]
       ELSE s[i]]

startsWith(s, p) == Len(s) >= Len(p) /\ SubSeq(s, 1, Len(p)) = p
endsWith(s, p) ==
  Len(s) >= Len(p) /\ SubSeq(s, Len(s) - Len(p) + 1, Len(s)) = p
includes(s, p) ==
  \E i \in 1..(Len(s) - Len(p) + 1) : SubSeq(s, i, i + Len(p) - 1) = p

\* the first position of character c in s, or Len(s) + 1
IndexOf(s, c) ==
  IF \E i \in 1..Len(s) : s[i] = c
    THEN CHOOSE i \in 1..Len(s) : s[i] = c /\ \A j \in 1..(i - 1) : s[j] # c
    ELSE Len(s) + 1

\* cleanUrl.replace(/[\x00-\x1F\x7F]/g, '')
IsControl(c) == c \in {"\t", "\n"}
NotControl(c) == ~IsControl(c)
removeControl(s) == SelectSeq(s, NotControl)

RECURSIVE parseInt(_)
parseInt(digits) ==
  IF digits = <<>> THEN 0
  ELSE 10 * parseInt(SubSeq(digits, 1, Len(digits) - 1))
         + DigitValue(digits[Len(digits)])

HttpPrefix == <<"h", "t", "t", "p", ":", "/", "/">>
HttpsPrefix == <<"h", "t", "t", "p", "s", ":", "/", "/">>
HttpProtocol == <<"h", "t", "t", "p", ":">>
HttpsProtocol == <<"h", "t", "t", "p", "s", ":">>
Localhost == <<"l", "o", "c", "a", "l", "h", "o", "s", "t">>

\* /^https?:\/\//i
hasHttpPrefix(s) ==
  \/ startsWith(toLowerCase(s), HttpPrefix)
  \/ startsWith(toLowerCase(s), HttpsPrefix)

RECURSIVE dropSlashes(_)
dropSlashes(s) ==
  IF s # <<>> /\ Head(s) = "/" THEN dropSlashes(Tail(s)) ELSE s

UrlThrows ==
  [ok |-> FALSE, protocol |-> <<>>, hostname |-> <<>>, port |-> <<>>,
   pathname |-> <<>>, search |-> <<>>, hash |-> <<>>]

\* the default port of a protocol, which the URL object never shows
DefaultPort(protocol) ==
  IF protocol = HttpProtocol THEN <<"8", "0">>
  ELSE IF protocol = HttpsProtocol THEN <<"4", "4", "3">>
  ELSE <<>>

\* new URL(text) for texts without query, fragment, credentials and
\* numeric-host shorthands: the scheme is lower-cased; for http and https the
\* host runs to the next "/", is lower-cased, must be non-empty and free of
\* spaces, and a port must be a number up to 65535; other schemes keep an
\* empty hostname and the rest as pathname; a text without scheme throws
URL(text) ==
  LET s == trim(text)
      colon == IndexOf(s, ":")
      scheme == toLowerCase(SubSeq(s, 1, colon - 1))
      protocol == scheme \o <<":">>
      rest == SubSeq(s, colon + 1, Len(s))
      afterSlashes == dropSlashes(rest)
      slash == IndexOf(afterSlashes, "/")
      authority == SubSeq(afterSlashes, 1, slash - 1)
      path == SubSeq(afterSlashes, slash, Len(afterSlashes))
      portColon == IndexOf(authority, ":")
      host == toLowerCase(SubSeq(authority, 1, portColon - 1))
      portText == SubSeq(authority, portColon + 1, Len(authority))
  IN IF colon > Len(s) \/ scheme = <<>>
          \/ \E i \in 1..Len(scheme) :
               ~(\E k \in 1..26 : LowerCase[k] = scheme[i])
       THEN UrlThrows
     ELSE IF protocol \notin {HttpProtocol, HttpsProtocol}
       THEN [ok |-> TRUE, protocol |-> protocol, hostname |-> <<>>,
             port |-> <<>>, pathname |-> rest, search |-> <<>>,
             hash |-> <<>>]
     ELSE IF host = <<>> \/ (\E i \in 1..Len(host) : host[i] = " ")
       THEN UrlThrows
     ELSE IF (\E i \in 1..Len(portText) : ~IsDigit(portText[i]))
               \/ Len(portText) > 5 \/ parseInt(portText) > 65535
       THEN UrlThrows
     ELSE [ok |-> TRUE, protocol |-> protocol, hostname |-> host,
           port |-> IF portText = DefaultPort(protocol)
                      THEN <<>> ELSE portText,
           pathname |-> IF path = <<>> THEN <<"/">> ELSE path,
           search |-> <<>>, hash |-> <<>>]

dangerousProtocols ==
  {<<"j", "a", "v", "a", "s", "c", "r", "i", "p", "t", ":">>,
   <<"d", "a", "t", "a", ":">>, <<"v", "b", "s", "c", "r", "i", "p", "t",
       ":">>, <<"f", "i", "l", "e", ":">>, <<"f", "t", "p", ":">>, <<"g",
           "o", "p", "h", "e", "r", ":">>}

\* /172\.(1[6-9]|2[0-9]|3[0-1])\./
Matches172(hostname) ==
  \E i \in 1..(Len(hostname) - 6) :
    /\ SubSeq(hostname, i, i + 3) = <<"1", "7", "2", ".">>
    /\ hostname[i + 6] = "."
    /\ \/ hostname[i + 4] = "1" /\ hostname[i + 5] \in {"6", "7", "8", "9"}
       \/ hostname[i + 4] = "2" /\ IsDigit(hostname[i + 5])
       \/ hostname[i + 4] = "3" /\ hostname[i + 5] \in {"0", "1"}

\* /10\.0\./
MatchesTen(hostname) == includes(hostname, <<"1", "0", ".", "0", ".">>)

\* suspiciousPatterns.some(pattern => pattern.test(hostname))
isSuspiciousUrl(url) ==
  LET hostname == toLowerCase(url.hostname)
  IN \/ includes(hostname, Localhost)
     \/ includes(hostname, <<"1", "2", "7", ".", "0", ".", "0", ".", "1">>)
     \/ includes(hostname, <<"0", ".", "0", ".", "0", ".", "0">>)
     \/ includes(hostname, <<"1", "9", "2", ".", "1", "6", "8", ".">>)
     \/ MatchesTen(hostname)
     \/ Matches172(hostname)
     \/ endsWith(hostname, <<".", "l", "o", "c", "a", "l">>)
     \/ endsWith(hostname, <<".", "o", "n", "i", "o", "n">>)
     \/ includes(hostname, <<"p", "h", "i", "s", "h", "i", "n", "g">>)
     \/ includes(hostname, <<"m", "a", "l", "w", "a", "r", "e">>)
     \/ includes(hostname, <<"v", "i", "r", "u", "s">>)
     \/ includes(hostname, <<"s", "c", "a", "m">>)

\* normalizeUrl(url): default ports and a trailing slash are dropped
normalizeUrl(url) ==
  LET port == IF (url.port = <<"8", "0">> /\ url.protocol = HttpProtocol)
                   \/ (url.port = <<"4", "4", "3">> /\ url.protocol = HttpsProtocol)
                THEN <<>> ELSE url.port
      sliced == IF endsWith(url.pathname, <<"/">>)
                  THEN SubSeq(url.pathname, 1, Len(url.pathname) - 1)
                  ELSE url.pathname
      pathname == IF sliced = <<>> THEN <<"/">> ELSE sliced
  IN url.protocol \o <<"/", "/">> \o url.hostname
       \o (IF port # <<>> /\ port # <<"8", "0">> /\ port # <<"4", "4", "3">>
             THEN <<":">> \o port ELSE <<>>)
       \o (IF pathname # <<"/">> THEN pathname ELSE <<>>)
       \o url.search \o url.hash

\* `https://${text}` unless the text has a protocol
WithHttps(text) == IF hasHttpPrefix(text) THEN text ELSE HttpsPrefix \o text

UrlRejected(error) == Invalid(error) @@ [normalizedUrl |-> None]

\* lines 631-683 on the cleaned text and the URL parsed from it
Validated(cleanUrl, urlObj) ==
  IF \E protocol \in dangerousProtocols :
       startsWith(toLowerCase(cleanUrl), protocol)
    THEN UrlRejected("Dangerous protocol not allowed")
  ELSE IF \/ startsWith(cleanUrl, <<":", "/", "/">>)
          \/ endsWith(cleanUrl, <<":", "/", "/">>)
          \/ cleanUrl \in {HttpPrefix, HttpsPrefix}
          \/ startsWith(cleanUrl, HttpPrefix \o <<".">>)
          \/ startsWith(cleanUrl, HttpsPrefix \o <<".">>)
          \/ includes(cleanUrl, <<".", ".">>)
          \/ endsWith(cleanUrl, <<":">>)
    THEN UrlRejected("Invalid URL format")
  ELSE IF ~hasHttpPrefix(cleanUrl) /\ ~includes(cleanUrl, <<".">>)
            /\ toLowerCase(cleanUrl) # Localhost
    THEN UrlRejected("Invalid URL format")
  ELSE IF ~urlObj.ok
    THEN UrlRejected("Invalid URL format")
  ELSE IF urlObj.protocol \notin {HttpProtocol, HttpsProtocol}
    THEN UrlRejected("Only HTTP and HTTPS URLs are allowed")
  ELSE IF urlObj.hostname = <<>>
    THEN UrlRejected("Invalid hostname")
  ELSE IF urlObj.port # <<>>
            /\ (parseInt(urlObj.port) < 1 \/ parseInt(urlObj.port) > 65535)
    THEN UrlRejected("Invalid port number")
  ELSE IF isSuspiciousUrl(urlObj)
    THEN UrlRejected("URL contains suspicious patterns")
  ELSE [isValid |-> TRUE, error |-> None,
        normalizedUrl |-> Some(normalizeUrl(urlObj))]

\* lines 626-655: the text is cleaned, given a protocol and parsed
ValidatedClean(cleanUrl) == Validated(cleanUrl, URL(WithHttps(cleanUrl)))

\* validateUrl(url)
validateUrl(url) ==
  IF url = <<>> \/ trim(url) = <<>>
    THEN [isValid |-> TRUE, error |-> None, normalizedUrl |-> Some(<<>>)]
    ELSE ValidatedClean(removeControl(trim(url)))

\* lines 803-822 on the trimmed text
DomainOf(urlToParse, urlObj) ==
  IF ~hasHttpPrefix(urlToParse) /\ ~includes(urlToParse, <<".">>)
       /\ toLowerCase(urlToParse) # Localhost
    THEN None
  ELSE IF ~urlObj.ok \/ urlObj.hostname = <<>>
    THEN None
  ELSE Some(urlObj.hostname)

\* extractDomain(url): the hostname, or None for null
extractDomain(url) ==
  IF url = <<>> \/ trim(url) = <<>> THEN None
  ELSE DomainOf(trim(url), URL(WithHttps(trim(url))))

defaultTrustedDomains ==
  {<<"g", "o", "o", "g", "l", "e", ".", "c", "o", "m">>, <<"e", "v", "e",
      "n", "t", "b", "r", "i", "t", "e", ".", "c", "o", "m">>, <<"t", "i",
          "c", "k", "e", "t", "m", "a", "s", "t", "e", "r", ".", "c", "o",
              "m">>,
   <<"s", "e", "a", "t", "g", "e", "e", "k", ".", "c", "o", "m">>, <<"f",
       "a", "c", "e", "b", "o", "o", "k", ".", "c", "o", "m">>, <<"m", "e",
           "e", "t", "u", "p", ".", "c", "o", "m">>, <<"y", "o", "u", "t",
               "u", "b", "e", ".", "c", "o", "m">>,
   <<"v", "i", "m", "e", "o", ".", "c", "o", "m">>, <<"g", "i", "t", "h",
       "u", "b", ".", "c", "o", "m">>, <<"s", "t", "a", "c", "k", "o", "v",
           "e", "r", "f", "l", "o", "w", ".", "c", "o", "m">>}

DomainIsTrusted(domain, allTrustedDomains) ==
  /\ domain # None
  /\ \E trustedDomain \in allTrustedDomains :
       \/ TheValue(domain) = trustedDomain
       \/ endsWith(TheValue(domain), <<".">> \o trustedDomain)

isTrustedDomain(url, trustedDomains) ==
  DomainIsTrusted(extractDomain(url),
                  defaultTrustedDomains \cup trustedDomains)

\* the options of validateAndSanitizeUrl; allowHttp and requireHttps are
\* None when left out
UrlOptions ==
  [allowHttp : {None, Some(TRUE), Some(FALSE)},
   requireHttps : {None, Some(TRUE), Some(FALSE)},
   maxLength : {2000}, trustedDomains : {{}}]

\* requireHttps derived from allowHttp whatever the caller asked for
RequireHttpsIgnoringOption(options, allowHttp) == ~allowHttp

\* requireHttps = !allowHttp
RequireHttpsOf(options, allowHttp) ==
  OrEmpty(options.requireHttps, ~allowHttp)

SanitizeRejected(error) ==
  Invalid(error) @@ [normalizedUrl |-> None, warnings |-> <<>>]

\* lines 932-940: the warnings of an accepted URL
SanitizeWarnings(trusted, urlObj) ==
  When(~trusted, "URL is from an untrusted domain")
  \o When(includes(urlObj.hostname, <<"b", "i", "t", ".", "l", "y">>)
            \/ includes(urlObj.hostname,
                        <<"t", "i", "n", "y", "u", "r", "l", ".", "c", "o",
                          "m">>),
          "URL appears to be a shortened link")

\* lines 888-949 on the cleaned text and the URL parsed from it
Sanitized(cleanUrl, normalizedUrl, urlObj, allowHttp, requireHttps, options) ==
  IF \E protocol \in dangerousProtocols :
       startsWith(toLowerCase(cleanUrl), protocol)
    THEN SanitizeRejected("Dangerous protocol not allowed")
  ELSE IF ~urlObj.ok
    THEN SanitizeRejected("Invalid URL format")
  ELSE IF urlObj.protocol \notin {HttpProtocol, HttpsProtocol}
    THEN SanitizeRejected("Only HTTP and HTTPS URLs are allowed")
  ELSE IF urlObj.hostname = <<>>
    THEN SanitizeRejected("Invalid hostname")
  ELSE IF isSuspiciousUrl(urlObj)
    THEN SanitizeRejected("URL contains suspicious patterns")
  ELSE IF requireHttps /\ urlObj.protocol # HttpsProtocol
    THEN SanitizeRejected("HTTPS is required for this URL")
  ELSE IF ~allowHttp /\ urlObj.protocol = HttpProtocol
    THEN SanitizeRejected("HTTP URLs are not allowed")
  ELSE IF Len(normalizedUrl) > options.maxLength
    THEN SanitizeRejected("URL too long")
  ELSE [isValid |-> TRUE, error |-> None,
        normalizedUrl |-> Some(normalizeUrl(urlObj)),
        warnings |->
          SanitizeWarnings(isTrustedDomain(normalizedUrl,
                                           options.trustedDomains), urlObj)]

\* lines 894-901: the protocol is added when missing, then the URL is parsed
SanitizedWithProtocol(cleanUrl, normalizedUrl, allowHttp, requireHttps,
                      options) ==
  Sanitized(cleanUrl, normalizedUrl, URL(normalizedUrl), allowHttp,
            requireHttps, options)

\* lines 868-886: the defaults of the options, the text trimmed and cleaned
SanitizedWithDefaults(cleanUrl, allowHttp, options) ==
  SanitizedWithProtocol(cleanUrl,
                        IF hasHttpPrefix(cleanUrl) THEN cleanUrl
                        ELSE IF allowHttp THEN HttpPrefix \o cleanUrl
                        ELSE HttpsPrefix \o cleanUrl,
                        allowHttp, RequireHttpsOf(options, allowHttp), options)

\* validateAndSanitizeUrl(url, options)
validateAndSanitizeUrl(url, options) ==
  IF url = <<>> \/ trim(url) = <<>>
    THEN [isValid |-> TRUE, error |-> None, normalizedUrl |-> Some(<<>>),
          warnings |-> <<>>]
    ELSE SanitizedWithDefaults(removeControl(trim(url)),
                               OrEmpty(options.allowHttp, FALSE), options)

----------------------------------------------------------------------------
(* lib/validation/event-validation.ts: the event schema and both entry points *)

\* An event under validation carries uid, source, title, startUtc, endUtc,
\* timezone, venueName, lat, lng, url and lastSeenAtUtc; optional fields are
\* None when undefined.  description, address, category, city, country,
\* status and both e-mail fields are undefined throughout.

Sources == {"googlecal", "eventbrite", "ticketmaster", "seatgeek", "manual"}

HasControl(text) == \E i \in 1..Len(text) : IsControl(text[i])

Issue(field, code, message) ==
  [field |-> field, code |-> code, message |-> message]

\* the issues EventValidationSchema.parse(event) raises, in field order
SchemaIssues(event) ==
  When(Len(event.uid) < 1,
       Issue("uid", "too_small", "Event UID is required"))
  \o When(Len(event.uid) > 255,
          Issue("uid", "too_big", "Event UID too long"))
  \o When(HasControl(event.uid),
          Issue("uid", "custom", "Event UID contains invalid characters"))
  \o When(event.source \notin Sources,
          Issue("source", "invalid_enum_value", "Invalid event source"))
  \o When(Len(event.title) < 1,
          Issue("title", "too_small", "Event title is required"))
  \o When(Len(event.title) > 500,
          Issue("title", "too_big", "Event title too long"))
  \o When(trim(event.title) = <<>>,
          Issue("title", "custom",
                "Event title cannot be empty or whitespace"))
  \o When(HasControl(event.title),
          Issue("title", "custom", "Event title contains invalid characters"))
  \o When(event.startUtc.form # "iso",
          Issue("startUtc", "invalid_string", "Invalid start date format"))
  \o When(event.endUtc # None /\ TheValue(event.endUtc).form # "iso",
          Issue("endUtc", "invalid_string", "Invalid end date format"))
  \o When(event.timezone # None /\ Len(TheValue(event.timezone)) > 50,
          Issue("timezone", "too_big", "Timezone too long"))
  \o When(event.timezone # None /\ HasControl(TheValue(event.timezone)),
          Issue("timezone", "custom", "Timezone contains invalid characters"))
  \o When(event.venueName # None /\ Len(TheValue(event.venueName)) > 255,
          Issue("venueName", "too_big", "Venue name too long"))
  \o When(event.venueName # None /\ HasControl(TheValue(event.venueName)),
          Issue("venueName", "custom",
                "Venue name contains invalid characters"))
  \o When(event.lat # None /\ TheValue(event.lat) < -90,
          Issue("lat", "too_small",
                "Latitude must be between -90 and 90 degrees"))
  \o When(event.lat # None /\ TheValue(event.lat) > 90,
          Issue("lat", "too_big",
                "Latitude must be between -90 and 90 degrees"))
  \o When(event.lng # None /\ TheValue(event.lng) < -180,
          Issue("lng", "too_small",
                "Longitude must be between -180 and 180 degrees"))
  \o When(event.lng # None /\ TheValue(event.lng) > 180,
          Issue("lng", "too_big",
                "Longitude must be between -180 and 180 degrees"))
  \o When(event.url # None /\ TheValue(event.url) # <<>>
            /\ ~URL(TheValue(event.url)).ok,
          Issue("url", "invalid_string", "Invalid URL format"))
  \o When(event.lastSeenAtUtc.form # "iso",
          Issue("lastSeenAtUtc", "invalid_string",
                "Invalid last seen date format"))

\* a message of the form `${context}: ${text}`, or the bare text when the
\* context is ""
Message(context, text) == <<context, text>>

\* validateEventData(event); an error reads `${path}: ${message}`
validateEventData(event) ==
  LET issues == SchemaIssues(event)
  IN IF issues = <<>>
       THEN [isValid |-> TRUE, errors |-> <<>>, data |-> Some(event)]
       ELSE [isValid |-> FALSE,
             errors |-> [i \in 1..Len(issues) |->
                           Message(issues[i].field, issues[i].message)],
             data |-> None]

\* title.toLowerCase().split(/\s+/).length
WordCount(text) ==
  1 + Cardinality({i \in 1..Len(text) :
                     /\ text[i] \in WhiteSpace
                     /\ (i = 1 \/ text[i - 1] \notin WhiteSpace)})

\* a non-empty string
Given(text) == text # None /\ TheValue(text) # <<>>

CompleteEventUrlOptions ==
  [allowHttp |-> Some(FALSE), requireHttps |-> Some(TRUE), maxLength |-> 2000,
   trustedDomains |-> {<<"e", "v", "e", "n", "t", "b", "r", "i", "t", "e",
       ".", "c", "o", "m">>, <<"t", "i", "c", "k", "e", "t", "m", "a", "s",
           "t", "e", "r", ".", "c", "o", "m">>,
                       <<"s", "e", "a", "t", "g", "e", "e", "k", ".", "c",
                           "o", "m">>, <<"g", "o", "o", "g", "l", "e", ".",
                               "c", "o", "m">>}]

CompleteEventCoordinateOptions ==
  [allowPartial |-> FALSE, precision |-> 6, checkRealisticBounds |-> TRUE]

HasEnd(data) == data.endUtc # None /\ TheValue(data.endUtc).form # "empty"
HasCoordinate(data) == data.lat # None \/ data.lng # None

\* the errors pushed at lines 1548-1615, in order
CompleteErrors(data, startDateValidation, endDateValidation,
               durationValidation, timezoneValidation, coordResult,
               urlResult) ==
  When(~startDateValidation.isValid,
       Message("Start date validation failed",
               TheValue(startDateValidation.error)))
  \o (IF ~HasEnd(data) THEN <<>>
      ELSE IF ~endDateValidation.isValid
        THEN <<Message("End date validation failed",
                       TheValue(endDateValidation.error))>>
      ELSE IF ~durationValidation.isValid
        THEN <<Message("", TheValue(durationValidation.error))>>
      ELSE <<>>)
  \o When(Given(data.timezone) /\ ~timezoneValidation.isValid,
          Message("Timezone validation failed",
                  TheValue(timezoneValidation.error)))
  \o When(HasCoordinate(data) /\ ~coordResult.isValid,
          Message("", TheValue(coordResult.error)))
  \o When(Given(data.url) /\ ~urlResult.isValid,
          Message("", TheValue(urlResult.error)))

\* the warnings pushed at lines 1563-1664, in order
CompleteWarnings(data, endDateValidation, durationValidation, coordResult,
                 urlResult) ==
  When(HasEnd(data) /\ endDateValidation.isValid
         /\ durationValidation.isValid
         /\ OrEmpty(durationValidation.durationMinutes, 0) \div 60 > 24,
       Message("", "Event duration is more than a day"))
  \o (IF HasCoordinate(data) /\ coordResult.isValid
        THEN [i \in 1..Len(coordResult.warnings) |->
                Message("Coordinates", coordResult.warnings[i])]
        ELSE <<>>)
  \o (IF Given(data.url) /\ urlResult.isValid
        THEN [i \in 1..Len(urlResult.warnings) |->
                Message("", urlResult.warnings[i])]
        ELSE <<>>)
  \o When(data.title # <<>> /\ WordCount(data.title) < 2,
          Message("", "Event title is very short"))
  \o When(~Given(data.timezone),
          Message("", "No timezone specified, assuming UTC"))

\* a result in which a warning blocks acceptance
CompleteResultStrict(data, errors, warnings) ==
  [isValid |-> errors = <<>> /\ warnings = <<>>, errors |-> errors,
   warnings |-> warnings,
   data |-> IF errors = <<>> THEN Some(data) ELSE None]

\* lines 1666-1671
CompleteResult(data, errors, warnings) ==
  [isValid |-> errors = <<>>, errors |-> errors, warnings |-> warnings,
   data |-> IF errors = <<>> THEN Some(data) ELSE None]

\* lines 1548-1664, given what the validators called there return
CompleteChecks(data, startDateValidation, endDateValidation,
               durationValidation, timezoneValidation, coordResult,
               urlResult) ==
  CompleteResult(data,
                 CompleteErrors(data, startDateValidation, endDateValidation,
                                durationValidation, timezoneValidation,
                                coordResult, urlResult),
                 CompleteWarnings(data, endDateValidation, durationValidation,
                                  coordResult, urlResult))

\* lines 1540-1546
CompleteAfterSchema(schemaResult, checked) ==
  IF ~schemaResult.isValid
    THEN [isValid |-> FALSE, errors |-> schemaResult.errors,
          warnings |-> <<>>, data |-> None]
    ELSE checked

\* validateCompleteEvent(event), called at env.now
validateCompleteEvent(event, env) ==
  CompleteAfterSchema(
    validateEventData(event),
    CompleteChecks(
      event,
      validateDateTimeWithTimezone(event.startUtc, event.timezone, env),
      validateDateTimeWithTimezone(OrEmpty(event.endUtc, EmptyString),
                                   event.timezone, env),
      validateEventDuration(event.startUtc, event.endUtc, env),
      validateTimezone(OrEmpty(event.timezone, NoText)),
      validateCoordinates(event.lat, event.lng,
                          CompleteEventCoordinateOptions),
      validateAndSanitizeUrl(OrEmpty(event.url, NoText),
                             CompleteEventUrlOptions)))

\* a number that is neither undefined nor 0
Truthy(number) == number # None /\ TheValue(number) # 0

\* performBusinessLogicValidation(event), called at env.now
performBusinessLogicValidation(event, env) ==
  LET start == NewDateOf(event.startUtc).time
      end == NewDateOf(TheValue(event.endUtc)).time
      hasEnd == event.endUtc # None /\ TheValue(event.endUtc).form # "empty"
      titleLower == toLowerCase(event.title)
      protocol == URL(TheValue(event.url)).protocol
      errors ==
        When(hasEnd /\ end - start < 0,
             Issue("endUtc", "invalid_duration",
                   "End date must be after start date"))
        \o When(start - env.now < 0 - 365 * Day,
                Issue("startUtc", "too_far_past",
                      "Event start date is more than 1 year in the past"))
        \o When((Truthy(event.lat) /\ ~Truthy(event.lng))
                  \/ (~Truthy(event.lat) /\ Truthy(event.lng)),
                Issue("coordinates", "incomplete_coordinates",
                      "Both latitude and longitude must be provided together"))
        \o When(Given(event.url) /\ URL(TheValue(event.url)).ok
                  /\ protocol \notin {HttpProtocol, HttpsProtocol},
                Issue("url", "invalid_protocol",
                      "URL must use HTTP or HTTPS protocol"))
      warnings ==
        When(hasEnd /\ end - start >= 0 /\ end - start > 168 * Hour,
             Issue("endUtc", "long_duration", "Event duration is long"))
        \o When(hasEnd /\ end - start >= 0 /\ end - start <= 168 * Hour
                  /\ (end - start) * 1000 < 61200,
                Issue("endUtc", "short_duration",
                      "Event duration is less than 1 minute"))
        \o When(start - env.now >= 0 - 365 * Day
                  /\ start - env.now < 0 - 30 * Day,
                Issue("startUtc", "past_event",
                      "Event start date is in the past"))
        \o When(start - env.now > 365 * 2 * Day,
                Issue("startUtc", "far_future",
                      "Event start date is more than 2 years in the future"))
        \o When(event.title # <<>>
                  /\ (\/ includes(titleLower, <<"t", "e", "s", "t">>)
                      \/ includes(titleLower, <<"e", "x", "a", "m", "p",
                          "l", "e">>)
                      \/ includes(titleLower, <<"s", "a", "m", "p", "l",
                          "e">>)),
                Issue("title", "suspicious_title",
                      "Event title appears to be a test or example"))
        \o When(event.title # <<>> /\ Len(event.title) < 3,
                Issue("title", "short_title", "Event title is very short"))
        \o When(~Given(event.venueName) /\ ~Truthy(event.lat)
                  /\ ~Truthy(event.lng),
                Issue("location", "missing_location",
                      "No location information provided"))
  IN [errors |-> errors, warnings |-> warnings]

FieldsOf(issues) == {issues[i].field : i \in 1..Len(issues)}

Summary(errors, warnings) ==
  [totalErrors |-> Len(errors), totalWarnings |-> Len(warnings),
   fieldsWithErrors |-> FieldsOf(errors),
   fieldsWithWarnings |-> FieldsOf(warnings)]

\* business rules applied whatever the schema said
BusinessAlwaysRuns(issues) == TRUE

\* performBusinessLogicValidation is reached only when parse did not throw
BusinessRuns(issues) == issues = <<>>

\* lines 2703-2747
DetailedResult(event, errors, warnings) ==
  [isValid |-> errors = <<>>, errors |-> errors, warnings |-> warnings,
   data |-> IF errors = <<>> THEN Some(event) ELSE None,
   summary |-> Summary(errors, warnings)]

\* lines 2695-2701 and the catch block, given the issues of the schema
DetailedAfterSchema(event, issues, businessValidation) ==
  IF BusinessRuns(issues)
    THEN DetailedResult(event, issues \o businessValidation.errors,
                        businessValidation.warnings)
    ELSE DetailedResult(event, issues, <<>>)

\* validateEventDataDetailed(event), called at env.now
validateEventDataDetailed(event, env) ==
  DetailedAfterSchema(event, SchemaIssues(event),
                      performBusinessLogicValidation(event, env))

----------------------------------------------------------------------------
(* Calls of the validation functions on inputs drawn from bounded sets *)

UrlTexts ==
  {
   \* 'javascript:alert(1)'
   <<"j", "a", "v", "a", "s", "c", "r", "i", "p", "t", ":", "a", "l", "e",
       "r", "t", "(", "1", ")">>,
   \* 'JavaScript:alert(1)'
   <<"J", "a", "v", "a", "S", "c", "r", "i", "p", "t", ":", "a", "l", "e",
       "r", "t", "(", "1", ")">>,
   \* ' data:text/html,x'
   <<" ", "d", "a", "t", "a", ":", "t", "e", "x", "t", "/", "h", "t", "m",
       "l", ",", "x">>,
   \* 'vbscript:x'
   <<"v", "b", "s", "c", "r", "i", "p", "t", ":", "x">>,
   \* 'file:///etc/passwd'
   <<"f", "i", "l", "e", ":", "/", "/", "/", "e", "t", "c", "/", "p", "a",
       "s", "s", "w", "d">>,
   \* 'ftp://malicious.com'
   <<"f", "t", "p", ":", "/", "/", "m", "a", "l", "i", "c", "i", "o", "u",
       "s", ".", "c", "o", "m">>,
   \* 'gopher://malicious.com'
   <<"g", "o", "p", "h", "e", "r", ":", "/", "/", "m", "a", "l", "i", "c",
       "i", "o", "u", "s", ".", "c", "o", "m">>,
   \* 'mailto:a@b.io'
   <<"m", "a", "i", "l", "t", "o", ":", "a", "@", "b", ".", "i", "o">>,
   \* 'https://localhost'
   <<"h", "t", "t", "p", "s", ":", "/", "/", "l", "o", "c", "a", "l", "h",
       "o", "s", "t">>,
   \* 'https://LOCALHOST/a'
   <<"h", "t", "t", "p", "s", ":", "/", "/", "L", "O", "C", "A", "L", "H",
       "O", "S", "T", "/", "a">>,
   \* 'localhost'
   Localhost,
   \* 'http://127.0.0.1'
   <<"h", "t", "t", "p", ":", "/", "/", "1", "2", "7", ".", "0", ".", "0",
       ".", "1">>,
   \* 'https://0.0.0.0'
   <<"h", "t", "t", "p", "s", ":", "/", "/", "0", ".", "0", ".", "0", ".",
       "0">>,
   \* 'https://192.168.1.1'
   <<"h", "t", "t", "p", "s", ":", "/", "/", "1", "9", "2", ".", "1", "6",
       "8", ".", "1", ".", "1">>,
   \* 'https://10.0.0.1'
   <<"h", "t", "t", "p", "s", ":", "/", "/", "1", "0", ".", "0", ".", "0",
       ".", "1">>,
   \* 'https://10.1.2.3'
   <<"h", "t", "t", "p", "s", ":", "/", "/", "1", "0", ".", "1", ".", "2",
       ".", "3">>,
   \* 'http://10.255.0.1'
   <<"h", "t", "t", "p", ":", "/", "/", "1", "0", ".", "2", "5", "5", ".",
       "0", ".", "1">>,
   \* 'https://172.16.0.1'
   <<"h", "t", "t", "p", "s", ":", "/", "/", "1", "7", "2", ".", "1", "6",
       ".", "0", ".", "1">>,
   \* 'https://172.31.9.9'
   <<"h", "t", "t", "p", "s", ":", "/", "/", "1", "7", "2", ".", "3", "1",
       ".", "9", ".", "9">>,
   \* 'https://172.32.0.1'
   <<"h", "t", "t", "p", "s", ":", "/", "/", "1", "7", "2", ".", "3", "2",
       ".", "0", ".", "1">>,
   \* 'https://example.local'
   <<"h", "t", "t", "p", "s", ":", "/", "/", "e", "x", "a", "m", "p", "l",
       "e", ".", "l", "o", "c", "a", "l">>,
   \* 'https://example.onion'
   <<"h", "t", "t", "p", "s", ":", "/", "/", "e", "x", "a", "m", "p", "l",
       "e", ".", "o", "n", "i", "o", "n">>,
   \* 'https://malware.example.com'
   <<"h", "t", "t", "p", "s", ":", "/", "/", "m", "a", "l", "w", "a", "r",
       "e", ".", "e", "x", "a", "m", "p", "l", "e", ".", "c", "o", "m">>,
   \* 'https://phishing.example.com'
   <<"h", "t", "t", "p", "s", ":", "/", "/", "p", "h", "i", "s", "h", "i",
       "n", "g", ".", "e", "x", "a", "m", "p", "l", "e", ".", "c", "o", "m">>,
   \* 'https://virus.example.com'
   <<"h", "t", "t", "p", "s", ":", "/", "/", "v", "i", "r", "u", "s", ".",
       "e", "x", "a", "m", "p", "l", "e", ".", "c", "o", "m">>,
   \* 'https://scam.example.com'
   <<"h", "t", "t", "p", "s", ":", "/", "/", "s", "c", "a", "m", ".", "e",
       "x", "a", "m", "p", "l", "e", ".", "c", "o", "m">>,
   \* 'https://example.com'
   <<"h", "t", "t", "p", "s", ":", "/", "/", "e", "x", "a", "m", "p", "l",
       "e", ".", "c", "o", "m">>,
   \* 'http://example.com'
   <<"h", "t", "t", "p", ":", "/", "/", "e", "x", "a", "m", "p", "l", "e",
       ".", "c", "o", "m">>,
   \* 'HTTP://Example.com/'
   <<"H", "T", "T", "P", ":", "/", "/", "E", "x", "a", "m", "p", "l", "e",
       ".", "c", "o", "m", "/">>,
   \* 'example.com'
   <<"e", "x", "a", "m", "p", "l", "e", ".", "c", "o", "m">>,
   \* 'https://example.com/a/'
   <<"h", "t", "t", "p", "s", ":", "/", "/", "e", "x", "a", "m", "p", "l",
       "e", ".", "c", "o", "m", "/", "a", "/">>,
   \* 'https://example.com:443/a'
   <<"h", "t", "t", "p", "s", ":", "/", "/", "e", "x", "a", "m", "p", "l",
       "e", ".", "c", "o", "m", ":", "4", "4", "3", "/", "a">>,
   \* 'http://example.com:8080'
   <<"h", "t", "t", "p", ":", "/", "/", "e", "x", "a", "m", "p", "l", "e",
       ".", "c", "o", "m", ":", "8", "0", "8", "0">>,
   \* 'https://example.com:99999'
   <<"h", "t", "t", "p", "s", ":", "/", "/", "e", "x", "a", "m", "p", "l",
       "e", ".", "c", "o", "m", ":", "9", "9", "9", "9", "9">>,
   \* 'https://ticketmaster.com/e1'
   <<"h", "t", "t", "p", "s", ":", "/", "/", "t", "i", "c", "k", "e", "t",
       "m", "a", "s", "t", "e", "r", ".", "c", "o", "m", "/", "e", "1">>,
   \* 'https://bit.ly/x'
   <<"h", "t", "t", "p", "s", ":", "/", "/", "b", "i", "t", ".", "l", "y",
       "/", "x">>,
   \* '\thttps://exa\nmple.com '
   <<"\t", "h", "t", "t", "p", "s", ":", "/", "/", "e", "x", "a", "\n", "m",
       "p", "l", "e", ".", "c", "o", "m", " ">>,
   \* 'https://a..b'
   <<"h", "t", "t", "p", "s", ":", "/", "/", "a", ".", ".", "b">>,
   \* 'https://'
   HttpsPrefix,
   \* '://x.io'
   <<":", "/", "/", "x", ".", "i", "o">>,
   \* 'not a url'
   <<"n", "o", "t", " ", "a", " ", "u", "r", "l">>,
   \* 'nodots'
   <<"n", "o", "d", "o", "t", "s">>,
   \* ''
   <<>>,
   \* ' '
   <<" ">>
  }

\* the URLs an event under validation carries
EventUrls ==
  {None, Some(<<>>), Some(<<"h", "t", "t", "p", "s", ":", "/", "/", "e",
      "x", "a", "m", "p", "l", "e", ".", "c", "o", "m">>),
   Some(<<"h", "t", "t", "p", ":", "/", "/", "e", "x", "a", "m", "p", "l",
       "e", ".", "c", "o", "m">>), Some(<<"h", "t", "t", "p", "s", ":", "/",
           "/", "t", "i", "c", "k", "e", "t", "m", "a", "s", "t", "e", "r",
               ".", "c", "o", "m", "/", "e", "1">>),
   Some(<<"h", "t", "t", "p", "s", ":", "/", "/", "1", "0", ".", "1", ".",
       "2", ".", "3">>), Some(<<"h", "t", "t", "p", "s", ":", "/", "/", "l",
           "o", "c", "a", "l", "h", "o", "s", "t">>),
   Some(<<"j", "a", "v", "a", "s", "c", "r", "i", "p", "t", ":", "a", "l",
       "e", "r", "t", "(", "1", ")">>), Some(<<"f", "t", "p", ":", "/", "/",
           "m", "a", "l", "i", "c", "i", "o", "u", "s", ".", "c", "o", "m">>),
   Some(<<"n", "o", "t", " ", "a", " ", "u", "r", "l">>)}

\* start instants, relative to now
StartOffsets ==
  {0 - 800 * Day, 0 - 731 * Day, 0 - 730 * Day, 0 - 400 * Day,
   0 - 365 * Day - 1, 0 - 365 * Day, 0 - 100 * Day, 0 - 30 * Day - 1,
   0 - 30 * Day, 0 - Day, 7 * Day, 400 * Day, 730 * Day, 730 * Day + 1,
   731 * Day, 800 * Day}

\* end instants, relative to the start
DurationOffsets ==
  {0 - Minute, 0, 1, 59, 60, 61, 62, Hour, 25 * Hour, 7 * Day - 1, 7 * Day,
   7 * Day + 1, 7 * Day + 59, 7 * Day + 60, 8 * Day}

Latitudes == {-91, -90, -1, 0, 1, 45, 86, 90, 91}
Longitudes == {-181, -180, 0, 1, 151, 180, 181}

OptionalOf(values) == {None} \cup {Some(v) : v \in values}

E1 == <<"e", "1">>
JazzNight == <<"J", "a", "z", "z", " ", "N", "i", "g", "h", "t">>
TestGig == <<"T", "e", "s", "t">>

\* a well-formed event a week ahead
BaseEvent(env) ==
  [uid |-> E1, source |-> "ticketmaster", title |-> JazzNight,
   startUtc |-> IsoString(env.now + 7 * Day), endUtc |-> None,
   timezone |-> Some(TzUTC), venueName |-> Some(Hall), lat |-> None,
   lng |-> None, url |-> None, lastSeenAtUtc |-> IsoString(env.now)]

StartStrings(env) ==
  {IsoString(env.now + offset) : offset \in StartOffsets}
    \cup {OtherDateString(env.now + 7 * Day), GarbageString, EmptyString}

EndStrings(startUtc) ==
  {None, Some(EmptyString), Some(GarbageString),
   Some(OtherDateString(startUtc.at + Hour))}
    \cup {Some(IsoString(startUtc.at + offset)) : offset \in DurationOffsets}

StartEndPairs(env) ==
  UNION {{[startUtc |-> startUtc, endUtc |-> endUtc] :
            endUtc \in EndStrings(startUtc)} : startUtc \in StartStrings(env)}

EventsWithDates(env) ==
  {[BaseEvent(env) EXCEPT !.startUtc = pair.startUtc,
                          !.endUtc = pair.endUtc] :
     pair \in StartEndPairs(env)}

EventsWithCoordinates(env) ==
  {[BaseEvent(env) EXCEPT !.lat = lat, !.lng = lng, !.venueName = venueName] :
     lat \in OptionalOf(Latitudes), lng \in OptionalOf(Longitudes),
     venueName \in {None, Some(Hall)}}

EventsWithText(env) ==
  {[BaseEvent(env) EXCEPT !.url = url, !.title = title,
                          !.timezone = timezone] :
     url \in EventUrls, title \in {JazzNight, Gig, TestGig, Blank, <<>>},
     timezone \in {None, Some(TzUTC), Some(TzEST), Some(TzPaddedZ),
                   Some(TzMoon), Some(NoText)}}

\* events in which schema faults and business faults meet
EventsWithFaults(env) ==
  {[BaseEvent(env) EXCEPT !.uid = uid, !.source = source,
                          !.startUtc = startUtc, !.lat = lat, !.lng = lng,
                          !.url = url, !.lastSeenAtUtc = lastSeenAtUtc] :
     uid \in {E1, <<>>, PaddedNote}, source \in {"ticketmaster", "facebook"},
     startUtc \in {IsoString(env.now + 7 * Day),
                   IsoString(env.now - 400 * Day), GarbageString},
     lat \in {None, Some(0), Some(45)}, lng \in {None, Some(0), Some(181)},
     url \in {None, Some(<<"j", "a", "v", "a", "s", "c", "r", "i", "p", "t",
         ":", "a", "l", "e", "r", "t", "(", "1", ")">>),
              Some(<<"h", "t", "t", "p", ":", "/", "/", "e", "x", "a", "m",
                  "p", "l", "e", ".", "c", "o", "m">>)},
     lastSeenAtUtc \in {IsoString(env.now), GarbageString}}

EventsAt(env) ==
  EventsWithDates(env) \cup EventsWithCoordinates(env)
    \cup EventsWithText(env) \cup EventsWithFaults(env)

\* the environment of a call that reads no clock
NoEnvironment == [now |-> 0, offset |-> 0]

IdleVal == [fn |-> "none", env |-> NoEnvironment, input |-> <<>>,
            result |-> <<>>]

Called(fn, env, input, result) ==
  [fn |-> fn, env |-> env, input |-> input, result |-> result]

CallValidateCompleteEvent ==
  /\ val.fn = "none"
  /\ \E env \in Environments : \E event \in EventsAt(env) :
       val' = Called("validateCompleteEvent", env, event,
                     validateCompleteEvent(event, env))
  /\ UNCHANGED <<store, calls, inflight, fetch, handler, auth, cal>>

CallValidateEventDataDetailed ==
  /\ val.fn = "none"
  /\ \E env \in Environments : \E event \in EventsAt(env) :
       val' = Called("validateEventDataDetailed", env, event,
                     validateEventDataDetailed(event, env))
  /\ UNCHANGED <<store, calls, inflight, fetch, handler, auth, cal>>

CallValidateCoordinates ==
  /\ val.fn = "none"
  /\ \E lat \in OptionalOf(Latitudes), lng \in OptionalOf(Longitudes),
        options \in CoordinateOptions :
       val' = Called("validateCoordinates", NoEnvironment,
                     [lat |-> lat, lng |-> lng, options |-> options],
                     validateCoordinates(lat, lng, options))
  /\ UNCHANGED <<store, calls, inflight, fetch, handler, auth, cal>>

CallValidateEventDuration ==
  /\ val.fn = "none"
  /\ \E env \in Environments : \E startUtc \in StartStrings(env) :
       \E endUtc \in EndStrings(startUtc) :
         val' = Called("validateEventDuration", env,
                       [startUtc |-> startUtc, endUtc |-> endUtc],
                       validateEventDuration(startUtc, endUtc, env))
  /\ UNCHANGED <<store, calls, inflight, fetch, handler, auth, cal>>

CallValidateUrl ==
  /\ val.fn = "none"
  /\ \E url \in UrlTexts :
       val' = Called("validateUrl", NoEnvironment, [url |-> url],
                     validateUrl(url))
  /\ UNCHANGED <<store, calls, inflight, fetch, handler, auth, cal>>

CallValidateAndSanitizeUrl ==
  /\ val.fn = "none"
  /\ \E url \in UrlTexts, options \in UrlOptions :
       val' = Called("validateAndSanitizeUrl", NoEnvironment,
                     [url |-> url, options |-> options],
                     validateAndSanitizeUrl(url, options))
  /\ UNCHANGED <<store, calls, inflight, fetch, handler, auth, cal>>

\* the caller has its result; the next call can be made
ValidationReturns ==
  /\ val.fn # "none"
  /\ val' = IdleVal
  /\ UNCHANGED <<store, calls, inflight, fetch, handler, auth, cal>>

----------------------------------------------------------------------------
(* app/api/auth/[...nextauth]/route.ts: the jwt callback and token refresh *)

GOOGLE_PROVIDER_ID == "google"
TOKEN_REFRESH_BUFFER_MS == 5 * 60 * 1000
RefreshAccessTokenError == "RefreshAccessTokenError"

\* number of invocations of the callback that are followed
MaxTicks == 3

\* Date.now() of the first invocation, in ms since the start of the clock,
\* and the times that pass between two invocations
FirstNow == 60 * 60 * 1000
ClockSteps == {60 * 1000, 57 * 60 * 1000, 2 * 60 * 60 * 1000}

\* ExtendedToken: every field may be undefined
EmptyToken ==
  [accessToken |-> None, refreshToken |-> None, scope |-> None,
   expiresAt |-> None, providerAccountId |-> None, error |-> None]

\* the Account row of the signed-in Google account
EmptyAccountRow ==
  [access_token |-> None, refresh_token |-> None, scope |-> None,
   expires_at |-> None]

\* persistAccountTokens: the columns written by updateMany; a field that is
\* undefined on the token is left out of data
AccountData(token) ==
  [access_token |-> token.accessToken,
   refresh_token |-> token.refreshToken,
   scope |-> token.scope,
   expires_at |-> IF token.expiresAt = None THEN None
                    ELSE Some(TheValue(token.expiresAt) \div 1000)]

\* Object.keys(data).length === 0
NoAccountData(data) ==
  /\ data.access_token = None /\ data.refresh_token = None
  /\ data.scope = None /\ data.expires_at = None

\* prisma.account.updateMany({ where, data })
updateMany(row, data) ==
  [access_token |-> Coalesce(data.access_token, row.access_token),
   refresh_token |-> Coalesce(data.refresh_token, row.refresh_token),
   scope |-> Coalesce(data.scope, row.scope),
   expires_at |-> Coalesce(data.expires_at, row.expires_at)]

\* the account argument of a Google sign-in at instant now (expires_at is in
\* seconds)
Accounts(now) ==
  [provider : {GOOGLE_PROVIDER_ID},
   providerAccountId : {"g1"},
   access_token : {Some("at1")},
   refresh_token : {None, Some("rt1")},
   scope : {Some("calendar.readonly")},
   expires_at : {None, Some(now \div 1000 + 3600), Some(now \div 1000 + 120)}]

\* what the token endpoint answers: the request fails or the body is no
\* JSON ("throws"), a non-2xx status, or a 2xx status with the new tokens
TokenResponses ==
  [kind : {"throws", "notOk"}, access_token : {None}, expires_in : {None},
   refresh_token : {None}, scope : {None}]
  \cup
  [kind : {"ok"}, access_token : {Some("at2"), None},
   expires_in : {None, Some(3600), Some(120)},
   refresh_token : {None, Some("rt2")}, scope : {None}]

\* no session yet; credentials: whether the environment of the process has
\* GOOGLE_CLIENT_ID and GOOGLE_CLIENT_SECRET
SignedOut ==
  [pc |-> "idle", cookie |-> FALSE, now |-> FirstNow, ticks |-> 0,
   token |-> EmptyToken, result |-> EmptyToken, signIn |-> FALSE,
   credentials |-> TRUE, requests |-> 0, writes |-> 0, row |-> EmptyAccountRow]

\* the callback returns a token; the invocation is over
Returns(a, token) == [a EXCEPT !.pc = "returned", !.result = token]

\* jwt, lines 157-170: the token of a sign-in with the Google provider
SignedInToken(token, account) ==
  [token EXCEPT
     !.accessToken = Coalesce(account.access_token, @),
     !.refreshToken = Coalesce(account.refresh_token, @),
     !.scope = Coalesce(account.scope, @),
     !.expiresAt = IF account.expires_at # None
                     THEN Some(TheValue(account.expires_at) * 1000) ELSE @,
     !.providerAccountId = Coalesce(Some(account.providerAccountId), @),
     !.error = None]

\* persistAccountTokens, awaited: the row is written unless data is empty;
\* a rejected updateMany rejects the caller
Persisted(a, token, dbOk) ==
  IF NoAccountData(AccountData(token)) THEN a
  ELSE IF dbOk
    THEN [a EXCEPT !.row = updateMany(@, AccountData(token)),
                   !.writes = @ + 1]
    ELSE [a EXCEPT !.pc = "rejected", !.writes = @ + 1]

\* the expiry test that always asks for a refresh
StillFreshNever(token, now) == FALSE

\* jwt, lines 182-185: the stored expiry is further away than the buffer
StillFresh(token, now) ==
  /\ token.expiresAt # None
  /\ TheValue(token.expiresAt) # 0
  /\ now < TheValue(token.expiresAt) - TOKEN_REFRESH_BUFFER_MS

\* refreshGoogleAccessToken, catch: the token with the error set
RefreshFailed(token) == [token EXCEPT !.error = Some(RefreshAccessTokenError)]

\* refreshGoogleAccessToken, lines 66-75: thrown before any request
ThrowsBeforeRequest(token, credentials) ==
  token.refreshToken = None \/ ~credentials

\* refreshGoogleAccessToken, lines 107-119
RefreshedToken(token, refreshedTokens, now) ==
  [token EXCEPT
     !.accessToken = Coalesce(refreshedTokens.access_token, @),
     !.refreshToken = Coalesce(refreshedTokens.refresh_token, @),
     !.scope = Coalesce(refreshedTokens.scope, @),
     !.expiresAt = IF refreshedTokens.expires_in # None
                     THEN Some(now +
                            TheValue(refreshedTokens.expires_in) * 1000)
                     ELSE @,
     !.error = None]

\* an invocation starts on the session token
Invoked(a, signIn) ==
  [a EXCEPT !.pc = "running", !.signIn = signIn, !.requests = 0,
            !.writes = 0, !.result = EmptyToken]

\* jwt({ token, account }) at a sign-in with Google: lines 155-180
JwtSignIn ==
  /\ auth.pc = "idle"
  /\ \E account \in Accounts(auth.now), dbOk \in BOOLEAN :
       LET extendedToken == SignedInToken(auth.token, account)
           written == Persisted(Invoked(auth, TRUE), extendedToken, dbOk)
       IN auth' = IF written.pc = "rejected" THEN written
                  ELSE Returns(written, extendedToken)
  /\ UNCHANGED <<store, calls, inflight, fetch, handler, val, cal>>

\* jwt({ token }) on a later request: lines 155, 182-189 and
\* refreshGoogleAccessToken up to its fetch
JwtInvoke ==
  /\ auth.pc = "idle"
  /\ auth.cookie
  /\ auth' =
       IF StillFresh(auth.token, auth.now)
         THEN Returns(Invoked(auth, FALSE), auth.token)
       ELSE IF ThrowsBeforeRequest(auth.token, auth.credentials)
         THEN Returns(Invoked(auth, FALSE), RefreshFailed(auth.token))
       ELSE [Invoked(auth, FALSE) EXCEPT !.pc = "refreshing",
                                         !.requests = 1]
  /\ UNCHANGED <<store, calls, inflight, fetch, handler, val, cal>>

\* the token endpoint settles the request: refreshGoogleAccessToken,
\* lines 90-133
TokenEndpointResponds ==
  /\ auth.pc = "refreshing"
  /\ \E response \in TokenResponses, dbOk \in BOOLEAN :
       auth' =
         IF response.kind # "ok"
           THEN Returns(auth, RefreshFailed(auth.token))
         ELSE LET updatedToken ==
                    RefreshedToken(auth.token, response, auth.now)
                  written ==
                    IF auth.token.providerAccountId # None
                      THEN Persisted(auth, updatedToken, dbOk)
                      ELSE auth
              IN IF written.pc = "rejected"
                   THEN Returns([written EXCEPT !.pc = "refreshing"],
                                RefreshFailed(auth.token))
                   ELSE Returns(written, updatedToken)
  /\ UNCHANGED <<store, calls, inflight, fetch, handler, val, cal>>

\* the invocation is over: a returned token becomes the session token (a
\* rejected callback leaves the session as it was); time passes
JwtSettled ==
  /\ auth.pc \in {"returned", "rejected"}
  /\ auth.ticks < MaxTicks
  /\ \E step \in ClockSteps :
       auth' = [auth EXCEPT
                  !.pc = "idle",
                  !.cookie = @ \/ auth.pc = "returned",
                  !.token = IF auth.pc = "returned" THEN auth.result ELSE @,
                  !.now = @ + step,
                  !.ticks = @ + 1]
  /\ UNCHANGED <<store, calls, inflight, fetch, handler, val, cal>>

NextAuth ==
  \/ JwtSignIn
  \/ JwtInvoke
  \/ TokenEndpointResponds
  \/ JwtSettled


----------------------------------------------------------------------------
(* app/api/test-calendar/route.ts: GET *)

\* session callback (auth route, lines 191-199): what the handler sees of a
\* session token
SessionOf(token) == [accessToken |-> token.accessToken, error |-> token.error]

\* getServerSession(authOptions): null, or the session of a token
Sessions ==
  {None} \cup
  {Some(SessionOf([EmptyToken EXCEPT !.accessToken = accessToken,
                                     !.error = error])) :
     accessToken \in {None, Some(""), Some("at1"), Some("at2")},
     error \in {None, Some(RefreshAccessTokenError), Some("OtherError")}}

\* what Google Calendar answers: the request fails, or a status with a body
\* that is JSON or not, with or without items
CalendarResponses ==
  [kind : {"throws"}, status : {0}, json : {FALSE}, items : {None}]
  \cup
  [kind : {"status"}, status : {200, 204, 301, 401, 403, 404, 500},
   json : BOOLEAN, items : {None, Some(<<>>), Some(<<"ev1", "ev2">>)}]

\* Response.ok
Ok(status) == status >= 200 /\ status <= 299

IdleCal ==
  [pc |-> "idle", session |-> None, requests |-> 0,
   google |-> [kind |-> "none", status |-> 0, json |-> FALSE, items |-> None],
   status |-> 0, error |-> "", events |-> None]

\* NextResponse.json({ error }, { status })
ErrorJson(c, error, status) ==
  [c EXCEPT !.pc = "responded", !.status = status, !.error = error]

\* NextResponse.json({ events })
EventsJson(c, events) ==
  [c EXCEPT !.pc = "responded", !.status = 200, !.events = Some(events)]

\* the test of the access token that lets an empty string through
MissingAccessTokenUndefinedOnly(accessToken) == accessToken = None

\* !accessToken
MissingAccessToken(accessToken) ==
  accessToken = None \/ accessToken = Some("")

\* lines 39-74: the session checks, up to the fetch
CalReceive ==
  /\ cal.pc = "idle"
  /\ \E session \in Sessions :
       LET c == [IdleCal EXCEPT !.session = session]
       IN cal' =
            IF session = None
              THEN ErrorJson(c, "Unauthorized", 401)
            ELSE IF TheValue(session).error = Some(RefreshAccessTokenError)
              THEN ErrorJson(c, "Google access token has expired. Please sign in again.", 401)
            ELSE IF MissingAccessToken(TheValue(session).accessToken)
              THEN ErrorJson(c, "Missing Google access token. Please reconnect your account.", 401)
            ELSE [c EXCEPT !.pc = "fetching", !.requests = 1]
  /\ UNCHANGED <<store, calls, inflight, fetch, handler, val, auth>>

\* lines 76-102: the request settles
CalFetched ==
  /\ cal.pc = "fetching"
  /\ \E response \in CalendarResponses :
       LET c == [cal EXCEPT !.google = response]
       IN cal' =
            IF response.kind = "throws"
              THEN ErrorJson(c, "Unable to retrieve Google Calendar events", 500)
            ELSE IF response.status = 401 \/ response.status = 403
              THEN ErrorJson(c, "Google access token is invalid or expired. Please sign in again.", 401)
            ELSE IF ~Ok(response.status)
              THEN ErrorJson(c, "Failed to fetch Google Calendar events", 500)
            ELSE IF ~response.json
              THEN ErrorJson(c, "Unable to retrieve Google Calendar events", 500)
            ELSE EventsJson(c, OrEmpty(response.items, <<>>))
  /\ UNCHANGED <<store, calls, inflight, fetch, handler, val, auth>>

\* the response is sent; the next request can be served
CalDone ==
  /\ cal.pc = "responded"
  /\ cal' = IdleCal
  /\ UNCHANGED <<store, calls, inflight, fetch, handler, val, auth>>

NextCalendar ==
  \/ CalReceive
  \/ CalFetched
  \/ CalDone

----------------------------------------------------------------------------
(* lib/validation/event-validation.ts: venue name formatting *)

toUpperCase(s) ==
  [i \in 1..Len(s) |->
     IF \E k \in 1..26 : LowerCase[k] = s[i]
       THEN UpperCase[CHOOSE k \in 1..26 : LowerCase[k] = s[i]]
       ELSE s[i]]

RECURSIVE Split(_, _)
\* String.prototype.split(c) for a one-character separator
Split(s, c) ==
  IF IndexOf(s, c) > Len(s) THEN <<s>>
  ELSE <<SubSeq(s, 1, IndexOf(s, c) - 1)>>
         \o Split(SubSeq(s, IndexOf(s, c) + 1, Len(s)), c)

\* the first position of a whitespace character in s, or Len(s) + 1
FirstWhiteSpace(s) ==
  IF \E i \in 1..Len(s) : s[i] \in WhiteSpace
    THEN CHOOSE i \in 1..Len(s) :
           s[i] \in WhiteSpace /\ \A j \in 1..(i - 1) : s[j] \notin WhiteSpace
    ELSE Len(s) + 1

RECURSIVE SplitOnWhiteSpace(_)
\* String.prototype.split(/\s+/)
SplitOnWhiteSpace(s) ==
  IF FirstWhiteSpace(s) > Len(s) THEN <<s>>
  ELSE <<SubSeq(s, 1, FirstWhiteSpace(s) - 1)>>
         \o SplitOnWhiteSpace(trimStart(SubSeq(s, FirstWhiteSpace(s), Len(s))))

RECURSIVE JoinWith(_, _)
\* Array.prototype.join(separator)
JoinWith(parts, separator) ==
  IF parts = <<>> THEN <<>>
  ELSE IF Len(parts) = 1 THEN parts[1]
  ELSE parts[1] \o separator \o JoinWith(Tail(parts), separator)

\* String.prototype.substring(start, end), 0-based, the arguments swapped
\* when start > end
Substring(s, start, end) ==
  IF start <= end THEN SubSeq(s, start + 1, end)
  ELSE SubSeq(s, end + 1, start)

\* Array.prototype.indexOf, 0-based: the first position holding the value
indexOf(words, word) ==
  (CHOOSE i \in 1..Len(words) :
     words[i] = word /\ \A j \in 1..(i - 1) : words[j] # word) - 1

articles ==
  {<<"a">>, <<"a", "n">>, <<"t", "h", "e">>, <<"a", "n", "d">>, <<"o",
      "r">>, <<"b", "u", "t">>, <<"i", "n">>, <<"o", "n">>, <<"a", "t">>,
   <<"t", "o">>, <<"f", "o", "r">>, <<"o", "f">>, <<"w", "i", "t",
       "h">>, <<"b", "y">>}

suffixes ==
  {<<"t", "h", "e", "a", "t", "e", "r">>, <<"t", "h", "e", "a", "t", "r",
      "e">>, <<"c", "e", "n", "t", "e", "r">>, <<"c", "e", "n", "t", "r",
          "e">>, <<"a", "r", "e", "n", "a">>, <<"s", "t", "a", "d", "i",
              "u", "m">>,
   <<"h", "a", "l", "l">>, <<"a", "u", "d", "i", "t", "o", "r", "i", "u",
       "m">>}

\* the keys of specialCases; every value is its key in upper case
specialCases ==
  {<<"m", "s", "g">>, <<"a", "t", "&", "t">>, <<"n", "b", "a">>, <<"n", "f",
      "l">>, <<"m", "l", "b">>, <<"n", "h", "l">>, <<"n", "c", "a",
          "a">>, <<"v", "i", "p">>,
   <<"u", "s", "a">>, <<"u", "s">>, <<"u", "k">>, <<"n", "y", "c">>, <<"l",
       "a">>, <<"s", "f">>, <<"d", "c">>}

\* part.charAt(0).toUpperCase() + part.slice(1).toLowerCase()
Capitalize(part) ==
  IF part = <<>> THEN <<>>
  ELSE toUpperCase(<<Head(part)>>) \o toLowerCase(Tail(part))

CapitalizeParts(parts) == [i \in 1..Len(parts) |-> Capitalize(parts[i])]

\* articles.includes(lowerWord) && words.indexOf(word) > 0
IsLaterArticle(words, i) ==
  toLowerCase(words[i]) \in articles /\ indexOf(words, words[i]) > 0

RECURSIVE capitalizeVenueName(_)

\* the callback of words.map, lines 1827-1897
CapitalizeWord(words, i) ==
  IF words[i] = <<>> THEN words[i]
  ELSE IF IsLaterArticle(words, i) THEN toLowerCase(words[i])
  ELSE IF toLowerCase(words[i]) \in suffixes THEN Capitalize(words[i])
  ELSE IF toLowerCase(words[i]) \in specialCases
    THEN toUpperCase(toLowerCase(words[i]))
  ELSE IF includes(words[i], <<"-">>)
    THEN JoinWith(CapitalizeParts(Split(words[i], "-")), <<"-">>)
  ELSE IF includes(words[i], <<"'">>)
    THEN JoinWith(CapitalizeParts(Split(words[i], "'")), <<"'">>)
  ELSE IF includes(words[i], <<"(">>) /\ includes(words[i], <<")">>)
    THEN capitalizeVenueName(
           Substring(words[i], 0, IndexOf(words[i], "(") - 1))
         \o <<"(">>
         \o capitalizeVenueName(
              Substring(words[i], IndexOf(words[i], "("),
                        IndexOf(words[i], ")") - 1))
         \o <<")">>
         \o capitalizeVenueName(
              Substring(words[i], IndexOf(words[i], ")"), Len(words[i])))
  ELSE Capitalize(words[i])

CapitalizeWords(words) ==
  JoinWith([i \in 1..Len(words) |-> CapitalizeWord(words, i)], <<" ">>)

capitalizeVenueName(venueName) ==
  IF venueName = <<>> THEN venueName
  ELSE CapitalizeWords(SplitOnWhiteSpace(venueName))

\* text.replace(/\s*<mark>\s*<name>$/i, '') for the marks - and @
StripMarkedSuffix(text, mark, name) ==
  IF /\ endsWith(toLowerCase(text), toLowerCase(name))
     /\ endsWith(trimEnd(SubSeq(text, 1, Len(text) - Len(name))), <<mark>>)
    THEN trimEnd(SubSeq(trimEnd(SubSeq(text, 1, Len(text) - Len(name))), 1,
           Len(trimEnd(SubSeq(text, 1, Len(text) - Len(name)))) - 1))
    ELSE text

\* text.replace(/\s*\(<name>\)$/i, '')
StripBracketedSuffix(text, name) ==
  IF endsWith(toLowerCase(text), <<"(">> \o toLowerCase(name) \o <<")">>)
    THEN trimEnd(SubSeq(text, 1, Len(text) - Len(name) - 2))
    ELSE text

\* formatEventbriteVenueName, formatTicketmasterVenueName,
\* formatSeatGeekVenueName, formatManualVenueName
formatProviderVenueName(venueName, name) ==
  capitalizeVenueName(
    trim(StripBracketedSuffix(
           StripMarkedSuffix(StripMarkedSuffix(venueName, "-", name),
                             "@", name),
           name)))

ProviderNames ==
  [eventbrite |-> <<"E", "v", "e", "n", "t", "b", "r", "i", "t",
      "e">>, ticketmaster |-> <<"T", "i", "c", "k", "e", "t", "m", "a", "s",
          "t", "e", "r">>,
   seatgeek |-> <<"S", "e", "a", "t", "G", "e", "e",
       "k">>, manual |-> <<"M", "a", "n", "u", "a", "l">>]

VenueSources == {"eventbrite", "ticketmaster", "seatgeek", "manual"}

\* formatVenueName, lines 1684-1690
CleanVenueName(venueName) ==
  trim(JoinWith(SplitOnWhiteSpace(removeControl(trim(venueName))), <<" ">>))

FormatClean(formatted, source) ==
  IF formatted = <<>> THEN None
  ELSE Some(formatProviderVenueName(formatted, ProviderNames[source]))

\* formatVenueName(venueName, source) for the sources other than googlecal
formatVenueName(venueName, source) ==
  IF venueName = None \/ venueName = Some(<<>>) THEN None
  ELSE FormatClean(CleanVenueName(TheValue(venueName)), source)

\* words of venue names
VenueWords ==
  {<<"t", "h", "e">>, <<"T", "h", "e">>, <<"O", "F">>, <<"r", "o", "c",
      "k">>, <<"H", "A", "L", "L">>, <<"m", "s", "g">>, <<"j", "a", "z",
          "z", "-", "c", "l", "u", "b">>,
   <<"(", "l", "i", "v", "e", ")">>}

\* number of words of a venue name
MaxWords == 3

\* venue names: up to MaxWords words joined by single spaces, bare or with
\* surrounding and doubled whitespace or with a provider suffix
VenueNameOf(words, shape) ==
  CASE shape = "bare" -> JoinWith(words, <<" ">>)
    [] shape = "padded" -> <<" ">> \o JoinWith(words, <<" ",
        " ">>) \o <<"\t">>
    [] shape = "suffixed" -> JoinWith(words, <<" ">>) \o <<" ", "-", " ",
        "T", "i", "c", "k", "e", "t", "m", "a", "s", "t", "e", "r">>

\* the shapes of name handed to each formatter
VenueCalls ==
  {<<"bare", "manual">>, <<"bare", "eventbrite">>, <<"padded", "seatgeek">>,
   <<"suffixed", "ticketmaster">>, <<"suffixed", "manual">>}

CallFormatVenueName ==
  /\ val.fn = "none"
  /\ \E k \in 1..MaxWords : \E words \in [1..k -> VenueWords] :
       \E call \in VenueCalls :
         val' = Called("formatVenueName", NoEnvironment,
                       [words |-> words, shape |-> call[1],
                        source |-> call[2]],
                       formatVenueName(Some(VenueNameOf(words, call[1])),
                                       call[2]))
  /\ UNCHANGED <<store, calls, inflight, fetch, handler, auth, cal>>

\* a missing or empty venue name
CallFormatVenueNameMissing ==
  /\ val.fn = "none"
  /\ \E venueName \in {None, Some(<<>>), Some(<<" ", "\t">>)} :
       \E source \in VenueSources :
         val' = Called("formatVenueName", NoEnvironment,
                       [words |-> <<>>, shape |-> "missing",
                        source |-> source],
                       formatVenueName(venueName, source))
  /\ UNCHANGED <<store, calls, inflight, fetch, handler, auth, cal>>


----------------------------------------------------------------------------
(* lib/validation/event-validation.ts: parseStructuredAddress *)

IsLetter(c) == \E k \in 1..26 : UpperCase[k] = c \/ LowerCase[k] = c
AllDigits(s) == \A i \in 1..Len(s) : IsDigit(s[i])
AllLetters(s) == \A i \in 1..Len(s) : IsLetter(s[i])

\* \d{5}(?:-\d{4})?
IsZip(s) ==
  \/ Len(s) = 5 /\ AllDigits(s)
  \/ /\ Len(s) = 10 /\ s[6] = "-"
     /\ AllDigits(SubSeq(s, 1, 5)) /\ AllDigits(SubSeq(s, 7, 10))

\* [A-Z]\d[A-Z]\s?\d[A-Z]\d, letters of either case
IsCanadianPostalCode(s) ==
  \E w \in 0..1 :
    /\ Len(s) = 6 + w
    /\ IsLetter(s[1]) /\ IsDigit(s[2]) /\ IsLetter(s[3])
    /\ w = 1 => s[4] \in WhiteSpace
    /\ IsDigit(s[4 + w]) /\ IsLetter(s[5 + w]) /\ IsDigit(s[6 + w])

\* [A-Z]{1,2}\d[A-Z\d]?\s?\d[A-Z]{2}, letters of either case
IsUkPostalCode(s) ==
  \E a \in 1..2, b \in 0..1, w \in 0..1 :
    /\ Len(s) = a + 1 + b + w + 3
    /\ AllLetters(SubSeq(s, 1, a))
    /\ IsDigit(s[a + 1])
    /\ b = 1 => IsLetter(s[a + 2]) \/ IsDigit(s[a + 2])
    /\ w = 1 => s[a + b + 2] \in WhiteSpace
    /\ IsDigit(s[a + b + w + 2])
    /\ AllLetters(SubSeq(s, a + b + w + 3, a + b + w + 4))

\* . matches no line terminator
NoLineBreak(s) == \A i \in 1..Len(s) : s[i] # "\n"

\* ^(.+?), : the text before the comma that ends the first group, the later
\* groups holding no comma
FirstGroup(parts, k) == JoinWith(SubSeq(parts, 1, k), <<",">>)
FirstGroupMatches(parts, k) ==
  k >= 1 /\ FirstGroup(parts, k) # <<>> /\ NoLineBreak(FirstGroup(parts, k))

\* \s*([A-Z]{2})\s+(<code>)$ on the text after the last comma
StateOf(part) == SubSeq(trimStart(part), 1, 2)
CodeOf(part) == trimStart(SubSeq(trimStart(part), 3, Len(trimStart(part))))
StateAndCodeMatch(part, IsCode(_)) ==
  /\ Len(trimStart(part)) >= 4
  /\ AllLetters(StateOf(part))
  /\ trimStart(part)[3] \in WhiteSpace
  /\ IsCode(CodeOf(part))

\* \s*([^,]+?)\s+(<UK code>)$ on the text after the last comma: the places
\* where the code can start
UkCodeStarts(part) ==
  {j \in 3..Len(part) :
     part[j - 1] \in WhiteSpace /\ IsUkPostalCode(SubSeq(part, j, Len(part)))}
\* the lazy city group ends as early as it can
UkCodeStart(part) ==
  CHOOSE j \in UkCodeStarts(part) : \A k \in UkCodeStarts(part) : j <= k

\* the seven regular expressions of patterns, lines 2243-2301
PatternMatches(k, parts) ==
  CASE k = 1 -> /\ Len(parts) >= 3
                /\ FirstGroupMatches(parts, Len(parts) - 2)
                /\ parts[Len(parts) - 1] # <<>>
                /\ StateAndCodeMatch(parts[Len(parts)], IsZip)
    [] k = 2 -> /\ Len(parts) >= 3
                /\ FirstGroupMatches(parts, Len(parts) - 2)
                /\ parts[Len(parts) - 1] # <<>>
                /\ StateAndCodeMatch(parts[Len(parts)], IsCanadianPostalCode)
    [] k = 3 -> /\ Len(parts) >= 2
                /\ FirstGroupMatches(parts, Len(parts) - 1)
                /\ UkCodeStarts(parts[Len(parts)]) # {}
    [] k = 4 -> /\ Len(parts) >= 3
                /\ FirstGroupMatches(parts, Len(parts) - 2)
                /\ parts[Len(parts) - 1] # <<>>
                /\ parts[Len(parts)] # <<>>
    [] k = 5 -> /\ Len(parts) >= 2
                /\ FirstGroupMatches(parts, Len(parts) - 1)
                /\ parts[Len(parts)] # <<>>
    [] k = 6 -> /\ Len(parts) = 2
                /\ parts[1] # <<>>
                /\ Len(trimStart(parts[2])) = 2
                /\ AllLetters(trimStart(parts[2]))
    [] k = 7 -> /\ Len(parts) = 2
                /\ parts[1] # <<>>
                /\ parts[2] # <<>>

NoAddress ==
  [street |-> None, city |-> None, state |-> None, postalCode |-> None,
   country |-> None]

UnitedStates == <<"U", "n", "i", "t", "e", "d", " ", "S", "t", "a", "t",
    "e", "s">>
Canada == <<"C", "a", "n", "a", "d", "a">>
UnitedKingdom == <<"U", "n", "i", "t", "e", "d", " ", "K", "i", "n", "g",
    "d", "o", "m">>

\* the handlers of patterns, lines 2244-2305
PatternHandler(k, parts) ==
  CASE k = 1 ->
         [NoAddress EXCEPT
            !.street = Some(trim(FirstGroup(parts, Len(parts) - 2))),
            !.city = Some(trim(parts[Len(parts) - 1])),
            !.state = Some(toUpperCase(StateOf(parts[Len(parts)]))),
            !.postalCode = Some(CodeOf(parts[Len(parts)])),
            !.country = Some(UnitedStates)]
    [] k = 2 ->
         [NoAddress EXCEPT
            !.street = Some(trim(FirstGroup(parts, Len(parts) - 2))),
            !.city = Some(trim(parts[Len(parts) - 1])),
            !.state = Some(toUpperCase(StateOf(parts[Len(parts)]))),
            !.postalCode = Some(toUpperCase(CodeOf(parts[Len(parts)]))),
            !.country = Some(Canada)]
    [] k = 3 ->
         [NoAddress EXCEPT
            !.street = Some(trim(FirstGroup(parts, Len(parts) - 1))),
            !.city = Some(trim(SubSeq(parts[Len(parts)], 1,
                                      UkCodeStart(parts[Len(parts)]) - 1))),
            !.postalCode =
              Some(toUpperCase(SubSeq(parts[Len(parts)],
                                      UkCodeStart(parts[Len(parts)]),
                                      Len(parts[Len(parts)])))),
            !.country = Some(UnitedKingdom)]
    [] k = 4 ->
         [NoAddress EXCEPT
            !.street = Some(trim(FirstGroup(parts, Len(parts) - 2))),
            !.city = Some(trim(parts[Len(parts) - 1])),
            !.country = Some(trim(parts[Len(parts)]))]
    [] k = 5 ->
         [NoAddress EXCEPT
            !.street = Some(trim(FirstGroup(parts, Len(parts) - 1))),
            !.city = Some(trim(parts[Len(parts)]))]
    [] k = 6 ->
         [NoAddress EXCEPT
            !.city = Some(trim(parts[1])),
            !.state = Some(toUpperCase(trim(parts[2]))),
            !.country = Some(UnitedStates)]
    [] k = 7 ->
         [NoAddress EXCEPT
            !.city = Some(trim(parts[1])),
            !.country = Some(trim(parts[2]))]

\* the order in which the loop of lines 2312-2319 tries the patterns
PatternOrder == <<1, 2, 3, 4, 5, 6, 7>>

\* for (const pattern of patterns) { ... break }: the position in the order
\* of the first pattern that matches, or 0
FirstMatch(parts) ==
  IF \E i \in 1..7 : PatternMatches(PatternOrder[i], parts)
    THEN CHOOSE i \in 1..7 :
           /\ PatternMatches(PatternOrder[i], parts)
           /\ \A j \in 1..(i - 1) : ~PatternMatches(PatternOrder[j], parts)
    ELSE 0

cityIndicators ==
  {<<"c", "i", "t", "y">>, <<"t", "o", "w", "n">>, <<"v", "i", "l", "l",
      "a", "g", "e">>, <<"b", "u", "r", "g">>, <<"v", "i", "l", "l",
          "e">>, <<"p", "o", "r", "t">>,
   <<"b", "e", "a", "c", "h">>, <<"s", "p", "r", "i", "n", "g",
       "s">>, <<"h", "e", "i", "g", "h", "t", "s">>, <<"h", "i", "l", "l",
           "s">>, <<"v", "a", "l", "l", "e", "y">>, <<"g", "r", "o", "v",
               "e">>,
   <<"p", "a", "r", "k">>, <<"r", "i", "d", "g", "e">>, <<"d", "a", "l",
       "e">>, <<"f", "o", "r", "d">>}

isLikelyCityName(text) ==
  \/ \E indicator \in cityIndicators : includes(toLowerCase(text), indicator)
  \/ Len(text) > 3

\* lines 2312-2331: the decomposition and whether the address was treated
\* as a street for want of a match
Decomposed(address, matched) ==
  IF matched # 0
    THEN PatternHandler(PatternOrder[matched], Split(address, ","))
  ELSE IF isLikelyCityName(address)
    THEN [NoAddress EXCEPT !.city = Some(trim(address))]
  ELSE [NoAddress EXCEPT !.street = Some(trim(address))]

TrailingPunctuation == {".", ",", "!", "?", ";", ":"}

RECURSIVE dropTrailingPunctuation(_)
\* .replace(/[.,!?;:]+$/, '')
dropTrailingPunctuation(s) ==
  IF s # <<>> /\ s[Len(s)] \in TrailingPunctuation
    THEN dropTrailingPunctuation(SubSeq(s, 1, Len(s) - 1))
    ELSE s

\* .replace(/\s+/g, ' ')
collapseWhiteSpace(s) == JoinWith(SplitOnWhiteSpace(s), <<" ">>)

cleanStreetAddress(street) ==
  trim(collapseWhiteSpace(dropTrailingPunctuation(street)))

cleanCityName(city) ==
  JoinWith(CapitalizeParts(Split(
             trim(collapseWhiteSpace(dropTrailingPunctuation(city))), " ")),
           <<" ">>)

\* entries of stateMap
stateMap ==
  {<<<<"T", "E", "X", "A", "S">>, <<"T", "X">>>>, <<<<"N", "E", "W", " ",
      "Y", "O", "R", "K">>, <<"N", "Y">>>>, <<<<"O", "N", "T", "A", "R",
          "I", "O">>, <<"O", "N">>>>}

\* table[key] || fallback
Lookup(table, key, fallback) ==
  IF \E entry \in table : entry[1] = key
    THEN (CHOOSE entry \in table : entry[1] = key)[2]
    ELSE fallback

cleanStateName(state) ==
  Lookup(stateMap, toUpperCase(trim(state)), toUpperCase(trim(state)))

countryMap ==
  {<<<<"U", "S", "A">>, <<"U", "n", "i", "t", "e", "d", " ", "S", "t", "a",
      "t", "e", "s">>>>,
   <<<<"U", "S">>, <<"U", "n", "i", "t", "e", "d", " ", "S", "t", "a", "t",
       "e", "s">>>>,
   <<<<"U", "N", "I", "T", "E", "D", " ", "S", "T", "A", "T", "E",
       "S">>, <<"U", "n", "i", "t", "e", "d", " ", "S", "t", "a", "t", "e",
           "s">>>>,
   <<<<"A", "M", "E", "R", "I", "C", "A">>, <<"U", "n", "i", "t", "e", "d",
       " ", "S", "t", "a", "t", "e", "s">>>>,
   <<<<"U", "K">>, <<"U", "n", "i", "t", "e", "d", " ", "K", "i", "n", "g",
       "d", "o", "m">>>>,
   <<<<"E", "N", "G", "L", "A", "N", "D">>, <<"U", "n", "i", "t", "e", "d",
       " ", "K", "i", "n", "g", "d", "o", "m">>>>,
   <<<<"B", "R", "I", "T", "A", "I", "N">>, <<"U", "n", "i", "t", "e", "d",
       " ", "K", "i", "n", "g", "d", "o", "m">>>>,
   <<<<"G", "B">>, <<"U", "n", "i", "t", "e", "d", " ", "K", "i", "n", "g",
       "d", "o", "m">>>>,
   <<<<"C", "A">>, <<"C", "a", "n", "a", "d", "a">>>>,
   <<<<"A", "U">>, <<"A", "u", "s", "t", "r", "a", "l", "i", "a">>>>,
   <<<<"D", "E">>, <<"G", "e", "r", "m", "a", "n", "y">>>>,
   <<<<"F", "R">>, <<"F", "r", "a", "n", "c", "e">>>>,
   <<<<"I", "T">>, <<"I", "t", "a", "l", "y">>>>,
   <<<<"E", "S">>, <<"S", "p", "a", "i", "n">>>>,
   <<<<"J", "P">>, <<"J", "a", "p", "a", "n">>>>,
   <<<<"C", "N">>, <<"C", "h", "i", "n", "a">>>>,
   <<<<"I", "N">>, <<"I", "n", "d", "i", "a">>>>,
   <<<<"B", "R">>, <<"B", "r", "a", "z", "i", "l">>>>,
   <<<<"M", "X">>, <<"M", "e", "x", "i", "c", "o">>>>}

cleanCountryName(country) ==
  Lookup(countryMap, toUpperCase(trim(country)), trim(country))

cleanPostalCode(postalCode) == toUpperCase(trim(postalCode))

validStates ==
  {<<"A", "L">>, <<"A", "K">>, <<"A", "Z">>, <<"A", "R">>, <<"C",
      "A">>, <<"C", "O">>, <<"C", "T">>, <<"D", "E">>, <<"F", "L">>, <<"G",
          "A">>, <<"H", "I">>, <<"I", "D">>, <<"I", "L">>, <<"I",
              "N">>, <<"I", "A">>, <<"K", "S">>, <<"K", "Y">>, <<"L",
                  "A">>, <<"M", "E">>, <<"M", "D">>, <<"M", "A">>, <<"M",
                      "I">>, <<"M", "N">>, <<"M", "S">>, <<"M",
                          "O">>, <<"M", "T">>, <<"N", "E">>, <<"N",
                              "V">>, <<"N", "H">>, <<"N", "J">>, <<"N",
                                  "M">>, <<"N", "Y">>, <<"N", "C">>, <<"N",
                                      "D">>, <<"O", "H">>, <<"O",
                                          "K">>, <<"O", "R">>, <<"P",
                                              "A">>, <<"R", "I">>, <<"S",
                                                  "C">>, <<"S",
                                                      "D">>, <<"T",
                                                          "N">>, <<"T",
                                                              "X">>, <<"U",
                                                                  "T">>, <<"V", "T">>, <<"V", "A">>, <<"W", "A">>, <<"W", "V">>, <<"W", "I">>, <<"W", "Y">>, <<"D", "C">>}

isValidUSState(state) == toUpperCase(state) \in validStates

\* the three patterns of isValidPostalCode, which take upper case only
isValidPostalCode(postalCode) ==
  /\ postalCode = toUpperCase(postalCode)
  /\ \/ IsZip(postalCode)
     \/ IsCanadianPostalCode(postalCode)
     \/ IsUkPostalCode(postalCode)

\* if (component) { component = clean(component) }
Cleaned(component, clean(_)) ==
  IF component # None /\ TheValue(component) # <<>>
    THEN Some(clean(TheValue(component)))
    ELSE component

\* lines 2334-2352
CleanedComponents(a) ==
  [street |-> Cleaned(a.street, cleanStreetAddress),
   city |-> Cleaned(a.city, cleanCityName),
   state |-> Cleaned(a.state, cleanStateName),
   country |-> Cleaned(a.country, cleanCountryName),
   postalCode |-> Cleaned(a.postalCode, cleanPostalCode)]

\* a component that is neither undefined nor the empty string
Present(component) == component # None /\ TheValue(component) # <<>>

\* lines 2355-2377
fullAddressParts(a) ==
  When(Present(a.street), OrEmpty(a.street, <<>>))
  \o When(Present(a.city), OrEmpty(a.city, <<>>))
  \o (IF Present(a.state) /\ Present(a.postalCode)
        THEN <<OrEmpty(a.state, <<>>) \o <<" ">>
                 \o OrEmpty(a.postalCode, <<>>)>>
      ELSE IF Present(a.state) THEN <<OrEmpty(a.state, <<>>)>>
      ELSE IF Present(a.postalCode) THEN <<OrEmpty(a.postalCode, <<>>)>>
      ELSE <<>>)
  \o When(Present(a.country), OrEmpty(a.country, <<>>))

\* lines 2329, 2380-2390
AddressWarnings(a, matched, address) ==
  When(matched = 0 /\ ~isLikelyCityName(address), "format not recognized")
  \o When(~Present(a.street) /\ ~Present(a.city), "missing street and city")
  \o When(Present(a.state) /\ ~isValidUSState(OrEmpty(a.state, <<>>)),
          "state may not be valid")
  \o When(Present(a.postalCode)
            /\ ~isValidPostalCode(OrEmpty(a.postalCode, <<>>)),
          "postal code format may be invalid")

NoAddressResult ==
  [isValid |-> TRUE, normalizedAddress |-> None, warnings |-> <<>>]

AddressResult(a, matched, address) ==
  [isValid |-> TRUE,
   normalizedAddress |->
     Some([street |-> a.street, city |-> a.city, state |-> a.state,
           postalCode |-> a.postalCode, country |-> a.country,
           fullAddress |-> JoinWith(fullAddressParts(a), <<",", " ">>)]),
   warnings |-> AddressWarnings(a, matched, address)]

ParsedWith(address, matched) ==
  AddressResult(CleanedComponents(Decomposed(address, matched)), matched,
                address)

parseStructuredAddress(address) ==
  IF address = <<>> \/ trim(address) = <<>> THEN NoAddressResult
  ELSE ParsedWith(address, FirstMatch(Split(address, ",")))

\* the parts addresses are made of
AddressStreets == {<<"1", " ", "M", "a", "i", "n", " ", "S", "t">>, <<"A",
    "p", "t", " ", "2", ",", " ", "1", " ", "M", "a", "i", "n", " ", "S",
        "t", ".">>}
AddressCities == {<<"A", "u", "s", "t", "i", "n">>, <<"n", "e", "w", " ",
    "y", "o", "r", "k">>, <<"E", "l", "y">>}
AddressStates == {<<"T", "X">>, <<"n", "y">>, <<"O", "N">>}
AddressCodes ==
  {<<"7", "8", "7", "0", "1">>, <<"7", "8", "7", "0", "1", "-", "1", "2",
      "3", "4">>, <<"M", "5", "V", " ", "2", "T", "6">>, <<"m", "5", "v",
          "2", "t", "6">>, <<"7", "8", "7", "0">>}
AddressCountries == {<<"F", "r", "a", "n", "c", "e">>, <<"u", "s",
    "a">>, <<"U", "K">>}
UkCodes == {<<"S", "W", "1", "A", " ", "2", "A", "A">>, <<"m", "1", " ",
    "1", "a", "e">>}
Commas == {<<",">>, <<",", " ">>}

\* addresses by shape: what the text was put together from
Addresses ==
  [shape : {"street, city, state code"}, street : AddressStreets,
   city : AddressCities, state : AddressStates, code : AddressCodes,
   country : {<<>>}, comma : Commas]
  \cup
  [shape : {"street, city code"}, street : AddressStreets,
   city : AddressCities, state : {<<>>}, code : UkCodes,
   country : {<<>>}, comma : Commas]
  \cup
  [shape : {"street, city, country", "city, country"},
   street : AddressStreets, city : AddressCities, state : {<<>>},
   code : {<<>>}, country : AddressCountries, comma : Commas]
  \cup
  [shape : {"street, city", "city", "blank"}, street : AddressStreets,
   city : AddressCities, state : {<<>>}, code : {<<>>}, country : {<<>>},
   comma : Commas]
  \cup
  [shape : {"city, state"}, street : AddressStreets, city : AddressCities,
   state : AddressStates, code : {<<>>}, country : {<<>>}, comma : Commas]

AddressText(a) ==
  CASE a.shape = "street, city, state code" ->
         a.street \o a.comma \o a.city \o a.comma \o a.state \o <<" ">>
           \o a.code
    [] a.shape = "street, city code" ->
         a.street \o a.comma \o a.city \o <<" ">> \o a.code
    [] a.shape = "street, city, country" ->
         a.street \o a.comma \o a.city \o a.comma \o a.country
    [] a.shape = "street, city" -> a.street \o a.comma \o a.city
    [] a.shape = "city, state" -> a.city \o a.comma \o a.state
    [] a.shape = "city, country" -> a.city \o a.comma \o a.country
    [] a.shape = "city" -> a.city
    [] a.shape = "blank" -> <<" ">>

CallParseStructuredAddress ==
  /\ val.fn = "none"
  /\ \E a \in Addresses :
       val' = Called("parseStructuredAddress", NoEnvironment,
                     [a EXCEPT !.street =
                        IF a.shape \in {"city, state", "city, country",
                                        "city", "blank"}
                          THEN <<>> ELSE @],
                     parseStructuredAddress(AddressText(a)))
  /\ UNCHANGED <<store, calls, inflight, fetch, handler, auth, cal>>

----------------------------------------------------------------------------
(* Ways an upsert call is started *)

\* events handed to concurrent calls
RacePool == {EvFresh, EvStale, EvPadded, EvNoUid}
RaceLists == SeqsUpTo(RacePool, MaxLen)

\* a request of one user starts an upsert while another may be running
StartCall(c) ==
  /\ calls[c].pc = "idle"
  /\ (c = "c2" => calls["c1"].pc # "idle")
  /\ \E events \in RaceLists : Begin(c, "alice", events)

\* the request that made a call ends once the call has settled
Release(c) ==
  /\ calls[c].pc \in {"returned", "raised"}
  /\ calls' = [calls EXCEPT ![c] = IdleCall]
  /\ UNCHANGED <<store, inflight, fetch, handler, val, auth, cal>>

\* a request starts an upsert when no other request is being served
StartCallSeq ==
  /\ \A c \in Calls : calls[c].pc = "idle"
  /\ \E userId \in Users, events \in EventLists : Begin("c1", userId, events)

\* the first of two calls with the same arguments
StartFirst ==
  /\ calls["c1"].pc = "idle"
  /\ \E userId \in Users, events \in EventLists : Begin("c1", userId, events)

\* the second call, made once the first has returned
StartSecond ==
  /\ calls["c1"].pc = "returned"
  /\ calls["c2"].pc = "idle"
  /\ Begin("c2", calls["c1"].userId, calls["c1"].events)

Init ==
  /\ store = {}
  /\ calls = [c \in Calls |-> IdleCall]
  /\ inflight = {}
  /\ fetch = IdleFetch
  /\ handler = IdleHandler
  /\ val = IdleVal
  /\ auth = SignedOut
  /\ cal = IdleCal

Next ==
  \/ \E c \in Calls : StartCall(c)
  \/ \E c \in Calls : SkipEvent(c)
  \/ \E c \in Calls : IssueFind(c)
  \/ \E c \in Calls : Return(c)
  \/ \E op \in inflight : DbFindUnique(op)
  \/ \E op \in inflight : DbUpdate(op)
  \/ \E op \in inflight : DbCreate(op)
  \/ \E op \in inflight : DbFails(op)

\* concurrent requests of one user
Spec == Init /\ [][Next]_vars

NextSeq ==
  \/ StartCallSeq
  \/ \E c \in Calls : Release(c)
  \/ \E c \in Calls : SkipEvent(c)
  \/ \E c \in Calls : IssueFind(c)
  \/ \E c \in Calls : Return(c)
  \/ \E op \in inflight : DbFindUnique(op)
  \/ \E op \in inflight : DbUpdate(op)
  \/ \E op \in inflight : DbCreate(op)
  \/ \E op \in inflight : DbFails(op)

\* requests of any users, one after the other
SpecSeq == Init /\ [][NextSeq]_vars

NextTwice ==
  \/ StartFirst
  \/ StartSecond
  \/ \E c \in Calls : SkipEvent(c)
  \/ \E c \in Calls : IssueFind(c)
  \/ \E c \in Calls : Return(c)
  \/ \E op \in inflight : DbFindUnique(op)
  \/ \E op \in inflight : DbUpdate(op)
  \/ \E op \in inflight : DbCreate(op)

\* the same list ingested twice in a row into an empty store that serves
\* every operation
SpecTwice == Init /\ [][NextTwice]_vars

NextSync ==
  \/ HandlerReceive
  \/ HandlerFetched
  \/ HandlerUpserted
  \/ HandlerDone
  \/ FetchRejects
  \/ FetchResponds
  \/ FetchParsed
  \/ \E c \in Calls : SkipEvent(c)
  \/ \E c \in Calls : IssueFind(c)
  \/ \E c \in Calls : Return(c)
  \/ \E op \in inflight : DbFindUnique(op)
  \/ \E op \in inflight : DbUpdate(op)
  \/ \E op \in inflight : DbCreate(op)
  \/ \E op \in inflight : DbFails(op)

\* requests to the sync route, served one after the other
SpecSync == Init /\ [][NextSync]_vars

NextValidation ==
  \/ CallValidateCompleteEvent
  \/ CallValidateEventDataDetailed
  \/ CallValidateCoordinates
  \/ CallValidateEventDuration
  \/ CallValidateUrl
  \/ CallValidateAndSanitizeUrl
  \/ ValidationReturns

\* calls of the validation functions, one after the other
SpecValidation == Init /\ [][NextValidation]_vars

\* one invocation of a provider adapter
SpecFetch == Init /\ [][NextFetch]_vars

\* a process whose environment has the OAuth client credentials, or lacks
\* them (process.env.GOOGLE_CLIENT_ID, process.env.GOOGLE_CLIENT_SECRET)
InitAuth ==
  /\ store = {}
  /\ calls = [c \in Calls |-> IdleCall]
  /\ inflight = {}
  /\ fetch = IdleFetch
  /\ handler = IdleHandler
  /\ val = IdleVal
  /\ auth \in {[SignedOut EXCEPT !.credentials = c] : c \in BOOLEAN}
  /\ cal = IdleCal

\* sign-ins and later invocations of the jwt callback, one after the other
SpecAuth == InitAuth /\ [][NextAuth]_vars

\* requests to the calendar route, served one after the other
SpecCalendar == Init /\ [][NextCalendar]_vars

NextText ==
  \/ CallFormatVenueName
  \/ CallFormatVenueNameMissing
  \/ CallParseStructuredAddress
  \/ ValidationReturns

\* calls of the text formatting and parsing functions, one after the other
SpecText == Init /\ [][NextText]_vars

----------------------------------------------------------------------------
(* Properties *)

\* an event the service is to skip: empty uid, or a startUtc / lastSeenAtUtc
\* that is no valid instant
Skippable(event) ==
  \/ event.uid = ""
  \/ NewDate(event.startUtc).nan
  \/ NewDate(event.lastSeenAtUtc).nan

\* the positions of the first n events of a list that are not to be skipped
ValidUpTo(events, n) == {i \in 1..n : ~Skippable(events[i])}
ValidIn(events) == ValidUpTo(events, Len(events))
DistinctUidsIn(events) == {events[i].uid : i \in ValidIn(events)}

RowsWithKey(userId, uid) ==
  {r \in store : r.userId = userId /\ r.uid = uid}

NoDuplicateKeys ==
  \A r1, r2 \in store :
    (r1.userId = r2.userId /\ r1.uid = r2.uid) => r1 = r2

BothReturned ==
  calls["c1"].pc = "returned" /\ calls["c2"].pc = "returned"

\* C1 as stated: the same list of N events ingested twice into a store with
\* no rows of the user gives {inserted: N, updated: 0}, then
\* {inserted: 0, updated: N}, and no two rows with the same (userId, uid).
C1_TwiceGivesNThenN ==
  BothReturned =>
    LET N == Len(calls["c1"].events)
    IN /\ calls["c1"].inserted = N /\ calls["c1"].updated = 0
       /\ calls["c2"].inserted = 0 /\ calls["c2"].updated = N
       /\ NoDuplicateKeys

\* C1 amended: with V the number of events of the list that are not skipped
\* and D the number of distinct uids among them, the first call returns
\* {inserted: D, updated: V - D} and the second {inserted: 0, updated: V}
\* (N and 0, then 0 and N, when all N events are valid with distinct uids),
\* and no two rows have the same (userId, uid).
C1_TwiceCountsValidEvents ==
  BothReturned =>
    LET V == Cardinality(ValidIn(calls["c1"].events))
        D == Cardinality(DistinctUidsIn(calls["c1"].events))
    IN /\ calls["c1"].inserted = D /\ calls["c1"].updated = V - D
       /\ calls["c2"].inserted = 0 /\ calls["c2"].updated = V
       /\ NoDuplicateKeys

\* C1 witness: a list of two valid events with distinct uids, ingested twice
C1_Witness ==
  /\ BothReturned
  /\ Len(calls["c1"].events) = 2
  /\ calls["c1"].inserted = 2
  /\ calls["c2"].updated = 2

\* C2: with non-overlapping calls the store has at most one row per
\* (userId, uid): a create is only ever issued for a key that is not stored
\* (a stored key is updated in place) and no create is rejected as a duplicate.
C2_OneRowPerKey ==
  /\ NoDuplicateKeys
  /\ \A op \in inflight :
       op.kind = "create" =>
         RowsWithKey(calls[op.call].userId, EventOf(op).uid) = {}
  /\ \A c \in Calls : calls[c].error # "P2002"

\* C2 witness: a call has inserted a key and updated a stored one, and both
\* users have a row
C2_Witness ==
  /\ \E c \in Calls : calls[c].inserted >= 1 /\ calls[c].updated >= 1
  /\ \A u \in Users : \E r \in store : r.userId = u

\* C3: the stored lastSeenAtUtc of a row never decreases.
C3_LastSeenNeverDecreases ==
  [][\A r \in store : \A r2 \in store' :
       r2.id = r.id => r2.lastSeenAtUtc >= r.lastSeenAtUtc]_vars

\* C4: an event with an empty uid or an unparseable startUtc or lastSeenAtUtc
\* is skipped: no store operation is ever issued for it, it is counted in
\* neither inserted nor updated, the call does not raise on it, and the events
\* after it are still processed (a returned call has counted every valid
\* event of its list).
C4_SkippedEventsLeaveNoTrace ==
  /\ \A op \in inflight : ~Skippable(EventOf(op))
  /\ \A c \in Calls :
       /\ calls[c].pc = "returned" =>
            calls[c].inserted + calls[c].updated =
              Cardinality(ValidIn(calls[c].events))
       /\ calls[c].pc = "raised" =>
            /\ calls[c].error \in {"store", "P2002", "P2025"}
            /\ ~Skippable(calls[c].events[calls[c].idx])

\* C4 witness: a returned call whose list holds "not-a-date" as a startUtc,
\* then a valid event, which was inserted
C4_Witness ==
  \E c \in Calls :
    /\ calls[c].pc = "returned"
    /\ Len(calls[c].events) = 2
    /\ calls[c].events[1].startUtc = "not-a-date"
    /\ ~Skippable(calls[c].events[2])
    /\ calls[c].inserted = 1

\* C5: a failing persistence step does not make the call raise: the call
\* goes on and returns its summary.
C5_StoreFailureDoesNotRaise ==
  \A c \in Calls : calls[c].pc # "raised"

\* C6: when concurrent calls of one user carry the same new uid, the second
\* create for the key fails at the storage layer (P2002, the row of the
\* first create being stored), and no state has two rows with the same
\* (userId, uid).
C6_RaceLeavesOneRow ==
  /\ NoDuplicateKeys
  /\ \A c \in Calls :
       calls[c].error = "P2002" =>
         Cardinality(RowsWithKey(calls[c].userId,
                                 calls[c].events[calls[c].idx].uid)) = 1

\* C6 witness: a create lost the race and was rejected by the unique index
C6_Witness ==
  \E c \in Calls : calls[c].error = "P2002"

\* C7: one call has at most one persistence operation in flight, always for
\* the event started last, and by then every earlier event of the list has
\* been dealt with (counted, or skipped).
C7_OneOperationAtATime ==
  \A c \in Calls :
    /\ Cardinality(OpsOf(c)) <= 1
    /\ \A op \in OpsOf(c) : op.idx = calls[c].idx
    /\ calls[c].pc \in {"running", "returned"} =>
         calls[c].inserted + calls[c].updated =
           Cardinality(ValidUpTo(calls[c].events,
                                 calls[c].idx - Cardinality(OpsOf(c))))

\* C7 witness: the lookup of the second event is in flight after the first
\* event was inserted
C7_Witness ==
  \E op \in inflight :
    /\ op.idx = 2
    /\ op.kind = "findUnique"
    /\ calls[op.call].inserted = 1

\* a row is changed only by an update addressed to its own key that settles
ChangedByOwnUpdate(r, r2) ==
  r2 # r =>
    \E op \in inflight :
      /\ op \notin inflight'
      /\ op.kind = "update"
      /\ WhereOf(op) = [userId |-> r.userId, uid |-> r.uid]

C9_RowReflectsIncomingEvent ==
  [][\A op \in inflight :
       (/\ op.kind \in {"update", "create"}
        /\ op \notin inflight'
        /\ calls'[op.call].pc = "running")
       => \E r \in store' :
            /\ r.userId = calls[op.call].userId
            /\ r.uid = EventOf(op).uid
            /\ r.title = IF trim(EventOf(op).title) = <<>>
                           THEN UntitledEvent
                           ELSE trim(EventOf(op).title)
            /\ r.description = sanitizeOptional(EventOf(op).description)
            /\ r.venueName = sanitizeOptional(EventOf(op).venueName)
            /\ r.address = sanitizeOptional(EventOf(op).address)
            /\ r.url = sanitizeOptional(EventOf(op).url)]_vars

\* C10: neither adapter raises to its caller, and it returns the empty list
\* when the API key is missing, the provider answers with a non-2xx status,
\* or the request, the parsing or the mapping of the response throws.
C10_AdaptersNeverRaise ==
  /\ fetch.pc # "raised"
  /\ fetch.failure # "none" => fetch.pc = "returned" /\ fetch.result = <<>>
  /\ (fetch.status # 0 /\ fetch.status \notin 200..299) =>
       fetch.failure = "non-2xx"
  /\ (fetch.pc = "returned" /\ fetch.result # <<>>) =>
       /\ fetch.body.json
       /\ fetch.body.events # None
       /\ \A i \in 1..Len(TheValue(fetch.body.events)) :
            TheValue(fetch.body.events)[i] # None

\* C10 witness: a response that is not JSON made the adapter return []
C10_Witness ==
  /\ fetch.pc = "returned"
  /\ fetch.failure = "parse threw"
  /\ fetch.result = <<>>

----------------------------------------------------------------------------
(* The sync route *)

NothingPerformed ==
  /\ fetch = IdleFetch
  /\ calls["c1"] = IdleCall
  /\ inflight = {}
  /\ store = handler.before

\* C11: a request whose method is neither GET nor POST is answered 405; a
\* GET or POST whose userId is not a string is answered 400 with an error
\* body, and neither the provider fetch nor any store operation has been
\* performed; when the fetch and the upsert both complete the answer is 200
\* with the upsert's inserted and updated counts; when either raises the
\* answer is 500 with an error body.
C11_HandlerResponses ==
  handler.pc = "responded" =>
    LET r == handler.response
    IN IF handler.method \notin {"GET", "POST"}
         THEN r.status = 405 /\ r.error # "" /\ NothingPerformed
         ELSE IF handler.query.type # "string"
           THEN r.status = 400 /\ r.error # "" /\ NothingPerformed
           ELSE /\ (fetch.pc = "raised" \/ calls["c1"].pc = "raised")
                     => r.status = 500 /\ r.error # ""
                /\ (fetch.pc = "returned" /\ calls["c1"].pc = "returned")
                     => /\ r.status = 200
                        /\ r.inserted = calls["c1"].inserted
                        /\ r.updated = calls["c1"].updated

\* a GET or POST carrying userId several times (an array) has been answered
\* 400 while rows of earlier requests are in the store
C11_Witness ==
  /\ handler.pc = "responded"
  /\ handler.method \in {"GET", "POST"}
  /\ handler.query.type = "object"
  /\ handler.response.status = 400
  /\ store # {}

\* C12: when the provider fetch fails (no API key, a request that throws, a
\* non-2xx answer, a body that cannot be parsed or mapped) the handler
\* answers as it does when the provider has no events: 200 with inserted = 0
\* and updated = 0, and the store is as it was when the request arrived.
C12_FetchFailureIsEmptySync ==
  (handler.pc = "responded" /\ fetch.failure # "none") =>
    /\ handler.response = SummaryResponse(0, 0)
    /\ store = handler.before

\* a non-2xx answer of the provider has been turned into a 200 response
\* while the store holds rows of an earlier request
C12_Witness ==
  /\ handler.pc = "responded"
  /\ fetch.failure = "non-2xx"
  /\ fetch.status = 500
  /\ handler.response.status = 200
  /\ store # {}

----------------------------------------------------------------------------
(* The validation engine *)

Returned(fn) == val.fn = fn

\* C13: whatever the input, the result of validateCompleteEvent has isValid
\* true exactly when errors is empty and data present exactly when errors is
\* empty; so no number of warnings makes isValid false.
C13_ValidExactlyWhenNoErrors ==
  Returned("validateCompleteEvent") =>
    /\ val.result.isValid <=> (val.result.errors = <<>>)
    /\ (val.result.data # None) <=> (val.result.errors = <<>>)
    /\ val.result.data # None => val.result.data = Some(val.input)

\* validateCompleteEvent has accepted an event with three warnings
C13_Witness ==
  /\ Returned("validateCompleteEvent")
  /\ val.result.isValid
  /\ Len(val.result.warnings) >= 3
  /\ val.result.data # None

\* C14: when the schema rejects the input, validateCompleteEvent and
\* validateEventDataDetailed return the schema's errors and nothing else: no
\* business-logic error, no warning, isValid false and no data.
C14_SchemaFailureStopsValidation ==
  (val.fn \in {"validateCompleteEvent", "validateEventDataDetailed"}
     /\ SchemaIssues(val.input) # <<>>) =>
    /\ ~val.result.isValid
    /\ val.result.data = None
    /\ val.result.warnings = <<>>
    /\ Returned("validateCompleteEvent") =>
         val.result.errors = validateEventData(val.input).errors
    /\ Returned("validateEventDataDetailed") =>
         val.result.errors = SchemaIssues(val.input)

\* validateEventDataDetailed has returned the single schema error of an
\* event without uid that also starts 400 days ago, has a latitude without
\* longitude and a javascript: URL
C14_Witness ==
  /\ Returned("validateEventDataDetailed")
  /\ val.input.uid = <<>>
  /\ val.input.startUtc = IsoString(val.env.now - 400 * Day)
  /\ val.input.lat = Some(45) /\ val.input.lng = None
  /\ val.input.url # None
  /\ Len(val.result.errors) = 1
  /\ val.result.errors[1].field = "uid"

ExactlyOneCoordinate(event) ==
  (event.lat = None) # (event.lng = None)

HasErrorCode(errors, code) ==
  \E i \in 1..Len(errors) : errors[i].code = code

\* C15: validateEventDataDetailed rejects, with an error of code
\* incomplete_coordinates, every schema-valid event that has exactly one of
\* lat and lng, whatever the in-range value of the one present; so an event
\* it accepts has both lat and lng or neither.
C15_OneCoordinateIsRejected ==
  (Returned("validateEventDataDetailed") /\ SchemaIssues(val.input) = <<>>) =>
    /\ ExactlyOneCoordinate(val.input) =>
         /\ ~val.result.isValid
         /\ HasErrorCode(val.result.errors, "incomplete_coordinates")
    /\ val.result.isValid => ~ExactlyOneCoordinate(val.input)

\* C16: validateCoordinates returns isValid false for lat = 0 with lng = 0,
\* for a lat outside [-90, 90] and for a lng outside [-180, 180], and neither
\* validateCompleteEvent nor validateEventDataDetailed returns isValid true
\* for an event with lat = 0 and lng = 0.
C16_NullIslandAndOutOfRangeRejected ==
  /\ Returned("validateCoordinates") =>
       /\ (val.input.lat = Some(0) /\ val.input.lng = Some(0))
            => ~val.result.isValid
       /\ (val.input.lat # None /\ val.input.lng # None
             /\ (\/ TheValue(val.input.lat) < -90
                 \/ TheValue(val.input.lat) > 90
                 \/ TheValue(val.input.lng) < -180
                 \/ TheValue(val.input.lng) > 180))
            => ~val.result.isValid
  /\ (val.fn \in {"validateCompleteEvent", "validateEventDataDetailed"}
        /\ val.input.lat = Some(0) /\ val.input.lng = Some(0))
       => ~val.result.isValid

\* a call of validateEventDuration with an end date, both dates being ones
\* validateDateString accepts
DurationOfPairChecked ==
  /\ Returned("validateEventDuration")
  /\ val.input.endUtc # None
  /\ validateDateString(val.input.startUtc, val.env).isValid
  /\ validateDateString(TheValue(val.input.endUtc), val.env).isValid

DurationSeconds == TheValue(val.input.endUtc).at - val.input.startUtc.at

StartDaysFromNow(days) == val.input.startUtc.at - val.env.now > days * Day
StartDaysBeforeNow(days) == val.env.now - val.input.startUtc.at > days * Day

\* C18: for a schema-valid event (all else in order), validateCompleteEvent
\* reports an error when the start is more than 365 days before now, and
\* accepts the event when the start is between 30 and 365 days in the past
\* or more than 730 days in the future.
C18_StartBoundsAtEntryPoint ==
  (Returned("validateCompleteEvent") /\ val.input.startUtc.form = "iso"
     /\ val.input = [BaseEvent(val.env) EXCEPT
                       !.startUtc = val.input.startUtc]) =>
    /\ StartDaysBeforeNow(365) => ~val.result.isValid
    /\ (StartDaysBeforeNow(30) /\ ~StartDaysBeforeNow(365))
         => val.result.isValid
    /\ StartDaysFromNow(730) => val.result.isValid

\* the input text starts with one of the six dangerous schemes
StartsWithDangerousScheme(text) ==
  \E protocol \in dangerousProtocols : startsWith(text, protocol)

\* a dotted quad: digits and three dots
IsDottedQuad(hostname) ==
  /\ \A i \in 1..Len(hostname) : IsDigit(hostname[i]) \/ hostname[i] = "."
  /\ Cardinality({i \in 1..Len(hostname) : hostname[i] = "."}) = 3

FirstOctet(hostname) == parseInt(SubSeq(hostname, 1, IndexOf(hostname, ".") - 1))

SecondOctet(hostname) ==
  LET rest == SubSeq(hostname, IndexOf(hostname, ".") + 1, Len(hostname))
  IN parseInt(SubSeq(rest, 1, IndexOf(rest, ".") - 1))

\* 10/8, 172.16/12 and 192.168/16
InPrivateRange(hostname) ==
  /\ IsDottedQuad(hostname)
  /\ \/ FirstOctet(hostname) = 10
     \/ FirstOctet(hostname) = 172 /\ SecondOctet(hostname) \in 16..31
     \/ FirstOctet(hostname) = 192 /\ SecondOctet(hostname) = 168

\* the hosts the URL validator is to refuse
ForbiddenHost(hostname) ==
  \/ hostname \in {Localhost, <<"1", "2", "7", ".", "0", ".", "0", ".",
      "1">>, <<"0", ".", "0", ".", "0", ".", "0">>}
  \/ InPrivateRange(hostname)
  \/ endsWith(hostname, <<".", "l", "o", "c", "a", "l">>)
  \/ endsWith(hostname, <<".", "o", "n", "i", "o", "n">>)
  \/ includes(hostname, <<"m", "a", "l", "w", "a", "r", "e">>)
  \/ includes(hostname, <<"p", "h", "i", "s", "h", "i", "n", "g">>)
  \/ includes(hostname, <<"v", "i", "r", "u", "s">>)
  \/ includes(hostname, <<"s", "c", "a", "m">>)

IsHttpUrl(text) ==
  /\ hasHttpPrefix(text)
  /\ URL(text).ok

\* C19: validateUrl returns isValid false and no normalizedUrl for every
\* input that starts with javascript:, data:, vbscript:, file:, ftp: or
\* gopher:, and for every http(s) URL whose host is localhost, 127.0.0.1,
\* 0.0.0.0, an address in 10/8, 172.16/12 or 192.168/16, a name ending in
\* .local or .onion, or a name containing malware, phishing, virus or scam.
C19_DangerousUrlsRejected ==
  (Returned("validateUrl")
     /\ \/ StartsWithDangerousScheme(val.input.url)
        \/ IsHttpUrl(val.input.url)
             /\ ForbiddenHost(URL(val.input.url).hostname)) =>
    /\ ~val.result.isValid
    /\ val.result.normalizedUrl = None

\* an http:// or https:// URL that passes every check of
\* validateAndSanitizeUrl other than the protocol requirements
OtherwiseValid(text) ==
  /\ IsHttpUrl(text)
  /\ ~isSuspiciousUrl(URL(text))
  /\ Len(text) <= 2000

\* C20: validateAndSanitizeUrl accepts an otherwise valid http:// URL
\* exactly when allowHttp is true and requireHttps is not true, so it
\* rejects it under the default options and whenever allowHttp is false; it
\* accepts an otherwise valid https:// URL under every combination of
\* allowHttp and requireHttps.
C20_HttpsRequiredByDefault ==
  (Returned("validateAndSanitizeUrl") /\ OtherwiseValid(val.input.url)) =>
    IF URL(val.input.url).protocol = HttpProtocol
      THEN val.result.isValid <=>
             /\ val.input.options.allowHttp = Some(TRUE)
             /\ val.input.options.requireHttps # Some(TRUE)
      ELSE val.result.isValid

\* validateAndSanitizeUrl has accepted http://example.com with allowHttp
\* true and requireHttps left out
C20_Witness ==
  /\ Returned("validateAndSanitizeUrl")
  /\ val.input.url = <<"h", "t", "t", "p", ":", "/", "/", "e", "x", "a",
      "m", "p", "l", "e", ".", "c", "o", "m">>
  /\ val.input.options.allowHttp = Some(TRUE)
  /\ val.input.options.requireHttps = None
  /\ val.result.isValid
  /\ val.result.normalizedUrl = Some(<<"h", "t", "t", "p", ":", "/", "/",
      "e", "x", "a", "m", "p", "l", "e", ".", "c", "o", "m">>)

\* C21: when two concurrent calls both try to create the same new
\* (userId, uid), the call whose create is rejected by the unique index
\* treats the event as skipped: it does not raise and goes on to return its
\* summary.
C21_RaceLoserIsSkipped ==
  \A c \in Calls :
    calls[c].error = "P2002" =>
      /\ calls[c].pc \in {"running", "returned"}
      /\ RowsWithKey(calls[c].userId, calls[c].events[calls[c].idx].uid) # {}

\* the session token's expiry is further in the future than the refresh
\* buffer (5 minutes)
FarFromExpiry ==
  /\ auth.token.expiresAt # None
  /\ TheValue(auth.token.expiresAt) - auth.now > 5 * 60 * 1000

ReturnedUnchanged ==
  auth.requests = 0 /\ auth.result = auth.token /\ auth.writes = 0

\* C22 as stated: one invocation of the jwt callback makes at most one
\* refresh request: none when the stored expiry is further away than the
\* buffer (the token is returned unchanged, nothing is persisted), exactly
\* one otherwise.
C22_ExactlyOneRefreshOtherwise ==
  /\ auth.requests <= 1
  /\ auth.pc = "returned" =>
       IF FarFromExpiry THEN ReturnedUnchanged ELSE auth.requests = 1

\* C22 amended: one invocation of the jwt callback makes at most one refresh
\* request, and a failed refresh is not retried within it. A sign-in
\* invocation makes none. Any other invocation makes none when the stored
\* expiry is further away than the buffer (the token is returned unchanged
\* and nothing is persisted), none when the token has no refresh token or
\* the OAuth client credentials are missing (the token is returned with
\* error RefreshAccessTokenError), and exactly one otherwise.
C22_AtMostOneRefresh ==
  /\ auth.requests <= 1
  /\ (auth.pc = "returned" /\ auth.signIn) => auth.requests = 0
  /\ (auth.pc = "returned" /\ ~auth.signIn) =>
       IF FarFromExpiry THEN ReturnedUnchanged
       ELSE IF auth.token.refreshToken = None \/ ~auth.credentials
         THEN /\ auth.requests = 0
              /\ auth.result.error = Some(RefreshAccessTokenError)
       ELSE auth.requests = 1

\* C22 witness: an invocation on an expired token whose single refresh
\* request failed has returned the error
C22_Witness ==
  /\ auth.pc = "returned" /\ ~auth.signIn
  /\ ~FarFromExpiry
  /\ auth.requests = 1
  /\ auth.result.error = Some(RefreshAccessTokenError)

\* C23: once a refresh has failed and the session token carries error
\* RefreshAccessTokenError, every later invocation of the jwt callback that
\* is not a sign-in returns a token with the error still set.
C23_RefreshErrorIsPermanent ==
  (/\ auth.pc = "returned"
   /\ ~auth.signIn
   /\ auth.token.error = Some(RefreshAccessTokenError))
  => auth.result.error = Some(RefreshAccessTokenError)

\* the session gives the handler no usable access token: there is no
\* session, it carries error RefreshAccessTokenError, or it has no access
\* token
NoUsableSession ==
  \/ cal.session = None
  \/ TheValue(cal.session).error = Some(RefreshAccessTokenError)
  \/ TheValue(cal.session).accessToken \in {None, Some("")}

\* C24: the calendar GET handler answers 401 {error} without sending a
\* request to Google whenever there is no session, the session carries
\* error RefreshAccessTokenError or it has no access token; once a request
\* is sent it answers 401 on a Google 401/403, 500 on any other non-OK
\* status or on an exception, and events only on an OK response.
C24_CalendarResponses ==
  /\ cal.pc = "fetching" => ~NoUsableSession
  /\ cal.pc = "responded" =>
       /\ cal.status \in {200, 401, 500}
       /\ cal.status # 200 <=> cal.error # ""
       /\ cal.status = 200 <=> cal.events # None
       /\ NoUsableSession => cal.status = 401 /\ cal.requests = 0
       /\ ~NoUsableSession =>
            /\ cal.requests = 1
            /\ cal.google.kind = "throws" => cal.status = 500
            /\ cal.google.kind = "status" =>
                 IF cal.google.status \in {401, 403} THEN cal.status = 401
                 ELSE IF cal.google.status \notin 200..299
                   THEN cal.status = 500
                 ELSE IF ~cal.google.json THEN cal.status = 500
                 ELSE /\ cal.status = 200
                      /\ cal.events = Some(OrEmpty(cal.google.items, <<>>))

\* C24 witness: a request whose session has an access token but carries the
\* refresh error was answered 401 with no request sent to Google
C24_WitnessRefused ==
  /\ cal.pc = "responded"
  /\ cal.session # None
  /\ TheValue(cal.session).error = Some(RefreshAccessTokenError)
  /\ TheValue(cal.session).accessToken = Some("at1")
  /\ cal.requests = 0 /\ cal.status = 401

\* the words of a formatted venue name
FormattedWords == SplitOnWhiteSpace(TheValue(val.result))

\* a word of the fixed article/preposition list, in any letter case
IsArticle(word) == toLowerCase(word) \in articles

\* C25: formatVenueName lowercases every word of the article/preposition
\* list at every word position other than the first, and capitalizes such a
\* word only as the first word of the name, for every sequence of words.
C25_ArticlesLowercasedAfterFirstWord ==
  (Returned("formatVenueName") /\ val.input.words # <<>>) =>
    \A i \in 1..Len(val.input.words) :
      IsArticle(val.input.words[i]) =>
        FormattedWords[i] =
          IF i = 1 THEN Capitalize(val.input.words[i])
          ELSE toLowerCase(val.input.words[i])

\* the components of a parsed address
ParsedAddress == TheValue(val.result.normalizedAddress)

\* the patterns that match the parsed text
MatchingPatterns ==
  {k \in 1..7 : PatternMatches(k, Split(AddressText(val.input), ","))}

\* the fields set by the handler of each pattern
FieldsOfPattern ==
  <<{"street", "city", "state", "postalCode", "country"},
    {"street", "city", "state", "postalCode", "country"},
    {"street", "city", "postalCode", "country"},
    {"street", "city", "country"},
    {"street", "city"},
    {"city", "state", "country"},
    {"city", "country"}>>

FieldsPresent ==
  {f \in {"street", "city", "state", "postalCode", "country"} :
     ParsedAddress[f] # None}

\* C26: the address parser uses the first of its seven patterns that
\* matches, and the two least-specific patterns are reachable: a street-less
\* "City, ST" is decomposed as city + state with country United States and a
\* bare "City, Country" as city + country, never as street + city.
C26_CityStateAndCityCountryReachable ==
  (Returned("parseStructuredAddress") /\ val.input.shape # "blank") =>
    /\ MatchingPatterns # {} =>
         \E k \in MatchingPatterns :
           /\ \A j \in MatchingPatterns : k <= j
           /\ FieldsPresent = FieldsOfPattern[k]
    /\ val.input.shape = "city, state" =>
         /\ ParsedAddress.street = None
         /\ ParsedAddress.city = Some(cleanCityName(val.input.city))
         /\ ParsedAddress.state = Some(toUpperCase(val.input.state))
         /\ ParsedAddress.country = Some(UnitedStates)
    /\ val.input.shape = "city, country" =>
         /\ ParsedAddress.street = None
         /\ ParsedAddress.city = Some(cleanCityName(val.input.city))
         /\ ParsedAddress.country = Some(cleanCountryName(val.input.country))

\* the rows of the users other than userId
RowsOfOthers(rows, userId) == {r \in rows : r.userId # userId}

\* C27: an upsert call for user u never creates, changes or deletes a row
\* whose userId differs from u; whether an event is updated or inserted
\* depends only on the rows of u (a row of another user with the same uid
\* makes no difference), so two users ingesting the same uid get two rows.
C27_OtherUsersRowsUntouched ==
  [][\A op \in inflight :
       op \notin inflight' =>
         /\ RowsOfOthers(store', calls[op.call].userId)
              = RowsOfOthers(store, calls[op.call].userId)
         /\ (op.kind = "findUnique" /\ calls'[op.call].pc = "running") =>
              \E next \in inflight' :
                /\ next.call = op.call /\ next.idx = op.idx
                /\ next.kind =
                     IF RowsWithKey(calls[op.call].userId, EventOf(op).uid)
                          # {}
                       THEN "update" ELSE "create"]_vars

\* C27 witness: both users have a row with uid e1, inserted by their own
\* calls, and the row of alice was since updated while that of bob was not
C27_Witness ==
  /\ \E r \in store : r.userId = "alice" /\ r.uid = "e1"
                        /\ r.source = "eventbrite"
  /\ \E r \in store : r.userId = "bob" /\ r.uid = "e1"
                        /\ r.source = "ticketmaster"
  /\ \E c \in Calls : calls[c].userId = "alice" /\ calls[c].updated = 1

\* the instants of the date strings that new Date() accepts
ValidInstants ==
  {NewDate(e.startUtc).time : e \in {x \in EventPool : ~NewDate(x.startUtc).nan}}
    \cup {NewDate(e.lastSeenAtUtc).time :
            e \in {x \in EventPool : ~NewDate(x.lastSeenAtUtc).nan /\
                                     x.lastSeenAtUtc # ""}}

\* a text that is not empty and has no white space at either end
Trimmed(text) == text # <<>> /\ trim(text) = text

\* an optional text that is absent, or present, non-blank and trimmed
AbsentOrTrimmed(opt) == opt = None \/ Trimmed(TheValue(opt))

\* C28: every stored row is well formed: a non-empty uid, a startUtc and a
\* lastSeenAtUtc that are valid instants, a non-empty title without leading
\* or trailing white space, and optional text fields (description,
\* venueName, address, url) that are absent or non-blank and trimmed.
C28_RowsWellFormed ==
  \A r \in store :
    /\ r.uid # ""
    /\ r.startUtc \in ValidInstants
    /\ r.lastSeenAtUtc \in ValidInstants
    /\ Trimmed(r.title)
    /\ AbsentOrTrimmed(r.description)
    /\ AbsentOrTrimmed(r.venueName)
    /\ AbsentOrTrimmed(r.address)
    /\ AbsentOrTrimmed(r.url)

\* C28 witness: a row written from the padded event holds the trimmed texts,
\* and a row written from the all-blank event holds the placeholder title
\* and no venue
C28_Witness ==
  /\ \E r \in store :
       /\ r.uid = "e2" /\ r.title = trim(PaddedJam)
       /\ r.venueName = Some(trim(PaddedPub))
       /\ r.url = Some(trim(PaddedLink))
  /\ \E r \in store :
       r.uid = "e1" /\ r.title = UntitledEvent /\ r.venueName = None

\* the number of events of a list that take an early return
SkippedIn(events) == Len(events) - Cardinality(ValidIn(events))

\* the call goes on in this step (it is neither started nor released)
GoesOn(c) == calls[c].pc # "idle" /\ calls'[c].pc # "idle"

\* C29: the summary of a completed upsert call accounts for every event
\* exactly once (inserted + updated + skipped = length of the list); the
\* inserted count of a call grows by one exactly when the call adds a row to
\* the store, so it equals the number of rows the call added; no step
\* deletes a row, so the number of stored rows never decreases.
C29_SummaryAccountsForEveryEvent ==
  [][/\ \A c \in Calls :
          calls'[c].pc = "returned" =>
            calls'[c].inserted + calls'[c].updated
              + SkippedIn(calls'[c].events) = Len(calls'[c].events)
     /\ \A c \in Calls :
          GoesOn(c) =>
            calls'[c].inserted - calls[c].inserted =
              IF \E op \in inflight : op.call = c /\ op \notin inflight'
                THEN Cardinality({r \in store' :
                                    \A old \in store : old.id # r.id})
                ELSE 0
     /\ \A old \in store : \E r \in store' : r.id = old.id
     /\ Cardinality(store') >= Cardinality(store)]_vars

\* C29 witness: a returned call whose list of two events had one skipped and
\* one updated (its key was stored before), beside a row of another key
C29_Witness ==
  \E c \in Calls :
    /\ calls[c].pc = "returned"
    /\ Len(calls[c].events) = 2
    /\ SkippedIn(calls[c].events) = 1
    /\ calls[c].inserted = 0 /\ calls[c].updated = 1
    /\ Cardinality(store) = 2

\* the first call has returned and the second has not begun: the store holds
\* what one batch made of an empty store
FirstBatchDone == calls["c1"].pc = "returned" /\ calls["c2"].pc = "idle"

\* the list holds two valid events with one uid
RepeatsOneUid(events) ==
  /\ Len(events) = 2
  /\ ValidIn(events) = {1, 2}
  /\ events[1].uid = events[2].uid

\* the row holds the field values the event gives
HoldsValuesOf(r, event) ==
  /\ r.source = event.source
  /\ r.title = IF trim(event.title) = <<>> THEN UntitledEvent
                                           ELSE trim(event.title)
  /\ r.startUtc = NewDate(event.startUtc).time
  /\ r.lastSeenAtUtc = NewDate(event.lastSeenAtUtc).time
  /\ r.description = sanitizeOptional(event.description)
  /\ r.venueName = sanitizeOptional(event.venueName)
  /\ r.address = sanitizeOptional(event.address)
  /\ r.url = sanitizeOptional(event.url)

\* C30: when one batch holds several valid events with the same uid that is
\* not yet stored, the first is inserted and each later one counted as
\* updated, no unique-constraint violation occurs, and the stored row ends
\* with the field values of the last occurrence in list order.
C30_RepeatedUidEndsWithLastOccurrence ==
  /\ \A c \in Calls : calls[c].error # "P2002"
  /\ (FirstBatchDone /\ RepeatsOneUid(calls["c1"].events)) =>
       /\ calls["c1"].inserted = 1
       /\ calls["c1"].updated = 1
       /\ \E r \in store :
            /\ store = {r}
            /\ r.userId = calls["c1"].userId
            /\ r.uid = calls["c1"].events[2].uid
            /\ HoldsValuesOf(r, calls["c1"].events[2])

====
